---- MODULE Spec2Model ----
(***************************************************************************)
(* Model of the request-governing core of the transaction SDK:             *)
(*   - RateLimiter (utils/rate-limiter.ts): two token buckets, a FIFO wait *)
(*     queue and the processQueue service loop;                            *)
(*   - retryWithBackoff (utils/retry.ts): retry classification and delay,  *)
(*     and the providers' catch block around it;                           *)
(*   - MemoryCache and TransactionCache (cache/): TTL, bounded eviction    *)
(*     and the query key;                                                  *)
(*   - BlockchainSDK (client.ts): getTransactions and its use of the cache;*)
(*   - the providers and adapters: one SDK call traced through limiter     *)
(*     admission, retried HTTP request, parsing and filtering;             *)
(*   - RequestQueue (utils/request-queue.ts): bounded concurrency.         *)
(* Time is in milliseconds.  Token counts are JavaScript numbers: they are *)
(* kept as exact multiples of 1/Scale, with two extra values for Infinity  *)
(* and NaN, which the constructor's defaults can produce.                  *)
(***************************************************************************)
EXTENDS Integers, Sequences, FiniteSets, TLC

(***************************************************************************)
(* Bounds of the model                                                     *)
(***************************************************************************)
\* number of clock advances
MaxTicks == 2
\* number of acquire()/tryAcquire() calls the environment makes
MaxCalls == 3
\* number of reset() calls the environment makes
MaxResets == 1
\* number of enqueue() calls the environment makes on a RequestQueue
MaxEnqueues == 3
\* iteration cap of one processQueue activation (1000 in the source),
\* scaled down so that an activation can reach it within MaxCalls waiters
maxIterations == 3

(***************************************************************************)
(* Program constants                                                       *)
(***************************************************************************)
SecondMs == 1000
MinuteMs == 60000
MinDelayMs == 10
\* one token is Scale units: every refill amount of the model is integral
Scale == MinuteMs

\* JavaScript number values that are not finite
Infinity == 0 - 1
NaN == 0 - 2

\* time steps of the clock
Steps == {250, 60000}
\* values of config.requestsPerSecond / config.requestsPerMinute;
\* an omitted (or zero) value becomes Infinity in the constructor
RpsChoices == {1, 2, Infinity}
RpmChoices == {3, Infinity}

VARIABLES
    rl,        \* the RateLimiter object's fields
    loops,     \* processQueue activations suspended in their setTimeout await
    now,       \* Date.now()
    ticks,     \* number of clock advances so far
    calls,     \* number of acquire()/tryAcquire() calls made so far
    resets,    \* number of reset() calls made so far
    settled,   \* acquire promises settled so far, in settlement order
    admitted,  \* times of the admissions granted so far (acquire and tryAcquire)
    tryLog,    \* results of the tryAcquire() calls made so far
    calledAt,  \* the time of each call made so far, by call number
    capHits,   \* number of activations that ended at the iteration cap with waiters queued
    retryConfig, \* the merged configuration of one retryWithBackoff call
    rt,          \* that call's position, locals, and what its operation did so far
    mc,        \* the MemoryCache object's fields; cache is the Map, in insertion order
    ops,       \* number of cache operations called directly so far
    obs,       \* the last cache operation called directly: arguments, result, store before it
    sdk,       \* the BlockchainSDK object: which adapters exist, whether it has a cache
    inflight,  \* getTransactions calls suspended in their adapter await
    callLog,   \* every getTransactions call made so far, with its outcome
    fetches,   \* number of adapter fetches started so far
    lastMut,   \* what the last change of the SDK's cache did
    req,       \* the SDK call traced through adapter and provider: position, locals, outcome
    wire,      \* what that call did so far: limiter admissions, HTTP requests, retries
    served,    \* every traced call that has ended: how it ended, and its arguments
    rq,        \* the RequestQueue object's fields
    jobs       \* every enqueue() call made so far: its task and its promise

limiterVars == <<rl, loops, now, ticks, calls, resets, settled, admitted, tryLog, calledAt, capHits>>
retryVars == <<retryConfig, rt>>
cacheVars == <<mc, ops, obs>>
clientVars == <<sdk, inflight, callLog, fetches, lastMut>>
requestVars == <<req, wire, served>>
queueVars == <<rq, jobs>>
nonLimiterVars == <<retryVars, cacheVars, clientVars, requestVars, queueVars>>
nonRetryVars == <<limiterVars, cacheVars, clientVars, requestVars, queueVars>>
nonQueueVars == <<limiterVars, retryVars, cacheVars, clientVars, requestVars>>

(***************************************************************************)
(* JavaScript arithmetic on token counts (finite values are >= 0)          *)
(***************************************************************************)
IsFinite(x) == x >= 0

\* a * b for a finite a >= 0 given in units and b a capacity: 0 * Infinity is NaN
jsScale(amount, cap) ==
    IF cap = NaN THEN NaN
    ELSE IF cap = Infinity THEN (IF amount = 0 THEN NaN ELSE Infinity)
    ELSE amount * cap

jsAdd(a, b) ==
    IF a = NaN \/ b = NaN THEN NaN
    ELSE IF a = Infinity \/ b = Infinity THEN Infinity
    ELSE a + b

\* Math.min: NaN if either argument is NaN
jsMin(a, b) ==
    IF a = NaN \/ b = NaN THEN NaN
    ELSE IF a = Infinity THEN b
    ELSE IF b = Infinity THEN a
    ELSE IF a <= b THEN a ELSE b

\* Math.max(0, x - 1 token)
jsDecr(x) ==
    IF x = NaN THEN NaN
    ELSE IF x = Infinity THEN Infinity
    ELSE IF x - Scale >= 0 THEN x - Scale ELSE 0

\* x >= 1 token; every comparison with NaN is false
jsGe1(x) == x # NaN /\ (x = Infinity \/ x >= Scale)

\* x < 1 token; every comparison with NaN is false
jsLt1(x) == x # NaN /\ x # Infinity /\ x < Scale

\* a capacity in token units
Cap(c) == IF IsFinite(c) THEN c * Scale ELSE c

Max(a, b) == IF a >= b THEN a ELSE b

(***************************************************************************)
(* RateLimiter                                                             *)
(***************************************************************************)
NewLimiter(rps, rpm, en, t) ==
    [ requestsPerSecond |-> rps,
      requestsPerMinute |-> rpm,
      enabled           |-> en,
      secondTokens      |-> Cap(rps),
      secondLastRefill  |-> t,
      minuteTokens      |-> Cap(rpm),
      minuteLastRefill  |-> t,
      queue             |-> <<>>,
      processing        |-> FALSE ]

\* one bucket of refillTokens: <<tokens, lastRefill>> after the refill at time t
refillBucket(tokens, last, cap, window, t) ==
    IF t - last >= window
    THEN <<Cap(cap), t>>
    ELSE <<jsMin(Cap(cap), jsAdd(tokens, jsScale((t - last) * (Scale \div window), cap))), last>>

\* (the operators below bind their argument once, as body[s \in {s0}], so that
\* it is evaluated a single time)
refillTokens(s0, t) ==
    LET body[s \in {s0}] ==
            LET sec == refillBucket(s.secondTokens, s.secondLastRefill, s.requestsPerSecond, SecondMs, t)
                min == refillBucket(s.minuteTokens, s.minuteLastRefill, s.requestsPerMinute, MinuteMs, t)
            IN  [s EXCEPT !.secondTokens = sec[1], !.secondLastRefill = sec[2],
                          !.minuteTokens = min[1], !.minuteLastRefill = min[2]]
    IN  body[s0]

\* canMakeRequest refills first: the state it leaves, and its result
canMakeRequestState(s, t) == IF s.enabled THEN refillTokens(s, t) ELSE s

canMakeRequest(s, t) ==
    IF ~s.enabled THEN TRUE
    ELSE LET body[r \in {refillTokens(s, t)}] == jsGe1(r.secondTokens) /\ jsGe1(r.minuteTokens)
         IN  body[refillTokens(s, t)]

consumeTokens(s0) ==
    LET body[s \in {s0}] ==
            IF ~s.enabled THEN s
            ELSE [s EXCEPT !.secondTokens = jsDecr(s.secondTokens),
                           !.minuteTokens = jsDecr(s.minuteTokens)]
    IN  body[s0]

\* calculateDelay of the limiter, evaluated on the state its own refill leaves
limiterCalculateDelay(s, t) ==
    IF ~s.enabled THEN 0
    ELSE LET body[r \in {refillTokens(s, t)}] ==
                 LET d1 == IF jsLt1(r.secondTokens)
                           THEN Max(0, SecondMs - (t - r.secondLastRefill)) ELSE 0
                     d2 == IF jsLt1(r.minuteTokens)
                           THEN Max(0, MinuteMs - (t - r.minuteLastRefill)) ELSE 0
                     maxDelay == Max(d1, d2)
                 IN  IF maxDelay = 0 /\ (jsLt1(r.secondTokens) \/ jsLt1(r.minuteTokens))
                     THEN MinDelayMs
                     ELSE maxDelay
         IN  body[refillTokens(s, t)]

\* the state calculateDelay leaves (it calls refillTokens itself)
calculateDelayState(s, t) == IF s.enabled THEN refillTokens(s, t) ELSE s

\* mutant of queueShift: pop(), the newest waiter is served first
queuePop(q) == <<q[Len(q)], SubSeq(q, 1, Len(q) - 1)>>

\* Array.prototype.shift on the wait queue: <<the item removed, the rest>>
queueShift(q) == <<Head(q), Tail(q)>>

\* mutant of finishLoop: the waiters left at the cap are not rejected
finishLoopNoReject(w, it) ==
    IF it >= maxIterations /\ Len(w.s.queue) > 0
    THEN [w EXCEPT !.s.processing = FALSE, !.capHits = @ + 1]
    ELSE [w EXCEPT !.s.processing = FALSE]

\* mutant of finishLoop: the flag is cleared only when the loop ends below the cap
finishLoopKeepFlag(w, it) ==
    IF it >= maxIterations /\ Len(w.s.queue) > 0
    THEN [w EXCEPT !.s.queue = <<>>,
                   !.settled = @ \o [i \in 1..Len(w.s.queue) |->
                                       [ticket |-> w.s.queue[i], outcome |-> "rejected", time |-> w.time]],
                   !.capHits = @ + 1]
    ELSE [w EXCEPT !.s.processing = FALSE]

\* the end of processQueue, after its while loop left with `it` iterations:
\* the flag is cleared, and at the cap the remaining waiters are rejected
finishLoop(w, it) ==
    IF it >= maxIterations /\ Len(w.s.queue) > 0
    THEN [w EXCEPT !.s.processing = FALSE,
                   !.s.queue = <<>>,
                   !.settled = @ \o [i \in 1..Len(w.s.queue) |->
                                       [ticket |-> w.s.queue[i], outcome |-> "rejected", time |-> w.time]],
                   !.capHits = @ + 1]
    ELSE [w EXCEPT !.s.processing = FALSE]

\* the while loop of processQueue, run from iteration count `it` at time t up
\* to its next await (w.suspended then holds the activation) or to its end
RECURSIVE serviceLoop(_, _, _)
serviceLoop(w0, it, t) ==
    LET body[w \in {w0}] ==
            IF Len(w.s.queue) > 0 /\ it < maxIterations
            THEN IF canMakeRequest(w.s, t)
                 THEN LET s1 == canMakeRequestState(w.s, t)
                          sh == queueShift(s1.queue)
                          s2 == consumeTokens([s1 EXCEPT !.queue = sh[2]])
                      IN  serviceLoop([w EXCEPT !.s = s2,
                                                !.settled = Append(@, [ticket |-> sh[1], outcome |-> "resolved", time |-> t]),
                                                !.admitted = Append(@, t)],
                                      it + 1, t)
                 ELSE LET s1 == canMakeRequestState(w.s, t)
                          delay == Max(limiterCalculateDelay(s1, t), MinDelayMs)
                      IN  [w EXCEPT !.s = calculateDelayState(s1, t),
                                    !.suspended = <<[iterations |-> it + 1, wakeAt |-> t + delay]>>]
            ELSE finishLoop(w, it)
    IN  body[w0]

\* processQueue called at time t: a new activation unless one is flagged running
processQueue(w, t) ==
    IF w.s.processing \/ Len(w.s.queue) = 0
    THEN w
    ELSE serviceLoop([w EXCEPT !.s.processing = TRUE], 0, t)

\* the part of the state one synchronous run of the limiter works on
World ==
    [s |-> rl, settled |-> settled, admitted |-> admitted, capHits |-> capHits,
     time |-> now, suspended |-> <<>>]

Commit(w, otherLoops) ==
    /\ rl' = w.s
    /\ settled' = w.settled
    /\ admitted' = w.admitted
    /\ capHits' = w.capHits
    /\ loops' = otherLoops \o w.suspended

\* acquire(): a disabled limiter resolves at once; otherwise the caller is
\* queued and processQueue runs synchronously up to its first await
Acquire ==
    /\ calls < MaxCalls
    /\ calls' = calls + 1
    /\ calledAt' = Append(calledAt, now)
    /\ IF ~rl.enabled
       THEN Commit([World EXCEPT !.settled = Append(@, [ticket |-> calls + 1, outcome |-> "resolved", time |-> now]),
                                 !.admitted = Append(@, now)], loops)
       ELSE \E w \in {processQueue([World EXCEPT !.s.queue = Append(@, calls + 1)], now)} :
                Commit(w, loops)
    /\ UNCHANGED <<now, ticks, resets, tryLog>>
    /\ UNCHANGED nonLimiterVars

\* tryAcquire(): the same check, without queueing
TryAcquire ==
    /\ calls < MaxCalls
    /\ calls' = calls + 1
    /\ calledAt' = Append(calledAt, now)
    /\ LET ok == canMakeRequest(rl, now)
           s1 == canMakeRequestState(rl, now)
       IN  /\ tryLog' = Append(tryLog, [call |-> calls + 1, time |-> now, result |-> ok])
           /\ IF ~rl.enabled
              THEN UNCHANGED <<rl, admitted>>
              ELSE IF ok
                   THEN rl' = consumeTokens(s1) /\ admitted' = Append(admitted, now)
                   ELSE rl' = s1 /\ UNCHANGED admitted
    /\ UNCHANGED <<loops, now, ticks, resets, settled, capHits>>
    /\ UNCHANGED nonLimiterVars

\* reset(): buckets refilled, the queue array replaced, the flag cleared;
\* an activation suspended in its await is not touched
Reset ==
    /\ resets < MaxResets
    /\ resets' = resets + 1
    /\ rl' = [rl EXCEPT !.secondTokens = Cap(rl.requestsPerSecond),
                        !.secondLastRefill = now,
                        !.minuteTokens = Cap(rl.requestsPerMinute),
                        !.minuteLastRefill = now,
                        !.queue = <<>>,
                        !.processing = FALSE]
    /\ UNCHANGED <<loops, now, ticks, calls, settled, admitted, tryLog, calledAt, capHits>>
    /\ UNCHANGED nonLimiterVars

RemoveAt(q, i) == SubSeq(q, 1, i - 1) \o SubSeq(q, i + 1, Len(q))

\* the setTimeout of a suspended activation fires (timers fire in order of
\* their expiry, never early) and the loop continues up to its next await
TimerFire(i) ==
    /\ loops[i].wakeAt <= now
    /\ \A j \in 1..Len(loops) : loops[j].wakeAt >= loops[i].wakeAt
    /\ \E w \in {serviceLoop(World, loops[i].iterations, now)} :
           Commit(w, RemoveAt(loops, i))
    /\ UNCHANGED <<now, ticks, calls, resets, tryLog, calledAt>>
    /\ UNCHANGED nonLimiterVars

\* the clock advances
Tick(d) ==
    /\ ticks < MaxTicks
    /\ ticks' = ticks + 1
    /\ now' = now + d
    /\ UNCHANGED <<rl, loops, calls, resets, settled, admitted, tryLog, calledAt, capHits>>
    /\ UNCHANGED nonLimiterVars

\* the earliest expiry among the pending timers
NextWake == CHOOSE t \in {loops[i].wakeAt : i \in 1..Len(loops)} :
                \A j \in 1..Len(loops) : loops[j].wakeAt >= t

\* nothing else runs: time passes until the earliest pending timer is due
AdvanceToTimer ==
    /\ Len(loops) > 0
    /\ NextWake > now
    /\ now' = NextWake
    /\ UNCHANGED <<rl, loops, ticks, calls, resets, settled, admitted, tryLog, calledAt, capHits>>
    /\ UNCHANGED nonLimiterVars

\* the limiter as constructed at time 0 with the given configuration
LimiterInit(rpsChoices, rpmChoices, enChoices) ==
    /\ now = 0
    /\ ticks = 0
    /\ rl \in {NewLimiter(rps, rpm, en, 0) : rps \in rpsChoices, rpm \in rpmChoices, en \in enChoices}
    /\ loops = <<>>
    /\ calls = 0
    /\ resets = 0
    /\ settled = <<>>
    /\ admitted = <<>>
    /\ tryLog = <<>>
    /\ calledAt = <<>>
    /\ capHits = 0

(***************************************************************************)
(* retryWithBackoff                                                        *)
(***************************************************************************)
\* an absent (undefined) property
Undefined == 0 - 1

DEFAULT_RETRY_CONFIG ==
    [ maxRetries           |-> 3,
      initialDelay         |-> 1000,
      maxDelay             |-> 10000,
      backoffMultiplier    |-> 2,
      retryableStatusCodes |-> {408, 429, 500, 502, 503, 504} ]

\* the configurations passed by the callers explored: the default, the one the
\* providers pass, and ones with no retry, one retry, a low delay cap and an
\* empty status-code set
ProviderCodes == {429, 500, 502, 503, 504}
RetryConfigs ==
    { [DEFAULT_RETRY_CONFIG EXCEPT !.maxRetries = m, !.maxDelay = d, !.retryableStatusCodes = c] :
        m \in {0, 1, 3}, d \in {3000, 10000}, c \in {{}, ProviderCodes, DEFAULT_RETRY_CONFIG.retryableStatusCodes} }

\* the failures the operation can throw; id is the number of the invocation
\* that threw it and makes each thrown object distinct
ErrorShapes ==
    {[kind |-> "NetworkError", retryAfter |-> Undefined, statusCode |-> Undefined]}
    \cup {[kind |-> "RateLimitError", retryAfter |-> r, statusCode |-> Undefined] : r \in {Undefined, 0, 2}}
    \cup {[kind |-> "ProviderError", retryAfter |-> Undefined, statusCode |-> c] : c \in {Undefined, 404, 503}}
    \cup {[kind |-> "ValidationError", retryAfter |-> Undefined, statusCode |-> Undefined]}

\* the machine-readable code each error class passes to the SDKError
\* constructor; a plain Error has none
ErrorCode ==
    [kind \in {"NetworkError", "ValidationError", "RateLimitError", "ProviderError", "ConfigurationError"} |->
        CASE kind = "NetworkError" -> "NETWORK_ERROR"
          [] kind = "ValidationError" -> "VALIDATION_ERROR"
          [] kind = "RateLimitError" -> "RATE_LIMIT_ERROR"
          [] kind = "ProviderError" -> "PROVIDER_ERROR"
          [] kind = "ConfigurationError" -> "CONFIGURATION_ERROR"]

\* an object of one of the SDKError classes: kind is the class, provider is ""
\* when the constructor is given none, context is whether a context object is
\* attached (every throw site of the SDK passes one)
SDKError(kind, provider, statusCode, retryAfter, n) ==
    [kind |-> kind, code |-> ErrorCode[kind], provider |-> provider, statusCode |-> statusCode,
     retryAfter |-> retryAfter, context |-> TRUE, id |-> n]

\* `new Error(message)`: neither a code nor a context
PlainError(n) ==
    [kind |-> "Error", code |-> "", provider |-> "", statusCode |-> Undefined, retryAfter |-> Undefined,
     context |-> FALSE, id |-> n]

\* httpRequest names no provider in the errors it throws
ErrorOf(shape, n) == SDKError(shape.kind, "", shape.statusCode, shape.retryAfter, n)

NoError ==
    [kind |-> "none", code |-> "", provider |-> "", statusCode |-> Undefined, retryAfter |-> Undefined,
     context |-> FALSE, id |-> 0]

RECURSIVE Pow(_, _)
Pow(b, k) == IF k = 0 THEN 1 ELSE b * Pow(b, k - 1)

Min(a, b) == IF a <= b THEN a ELSE b

\* calculateDelay(attempt, config) of retry.ts
calculateDelay(attempt, config) ==
    Min(config.initialDelay * Pow(config.backoffMultiplier, attempt), config.maxDelay)

\* mutant of isRetryableError: every failure is retried
isRetryableAlways(error, config) == TRUE

isRetryableError(error, config) ==
    IF error.kind = "NetworkError" THEN TRUE
    ELSE IF error.kind = "RateLimitError" THEN TRUE
    ELSE FALSE

\* `error instanceof RateLimitError && error.retryAfter`: undefined and 0 are falsy
hasRetryAfter(error) ==
    error.kind = "RateLimitError" /\ error.retryAfter # Undefined /\ error.retryAfter # 0

\* the delay awaited after `error` failed attempt number `attempt`
retryDelay(error, attempt, config) ==
    IF hasRetryAfter(error) THEN error.retryAfter * 1000 ELSE calculateDelay(attempt, config)

\* mutant of attemptsExhausted: the budget ends one attempt early
attemptsExhaustedEarly(attempt, config) == attempt + 1 >= config.maxRetries

\* `attempt >= retryConfig.maxRetries`: no attempt is left
attemptsExhausted(attempt, config) == attempt >= config.maxRetries

\* no retryWithBackoff call is in progress
RetryIdle ==
    /\ retryConfig = DEFAULT_RETRY_CONFIG
    /\ rt = [pc |-> "idle", attempt |-> 0, lastError |-> NoError, thrown |-> NoError,
             invocations |-> 0, errors |-> <<>>, sleeps |-> <<>>, surfaced |-> NoError]

\* `return await fn()` with fn fulfilled
RetryCallSucceeds ==
    /\ rt.pc = "call"
    /\ rt.attempt <= retryConfig.maxRetries
    /\ rt' = [rt EXCEPT !.pc = "returned", !.invocations = @ + 1]
    /\ UNCHANGED retryConfig
    /\ UNCHANGED nonRetryVars

\* `await fn()` rejected with `error`: the catch block
RetryCallFails(shape) ==
    /\ rt.pc = "call"
    /\ rt.attempt <= retryConfig.maxRetries
    /\ LET error == ErrorOf(shape, rt.invocations + 1)
           r1 == [rt EXCEPT !.invocations = @ + 1, !.errors = Append(@, error), !.lastError = error]
       IN  rt' = IF ~isRetryableError(error, retryConfig)
                 THEN [r1 EXCEPT !.pc = "thrown", !.thrown = error]
                 ELSE IF attemptsExhausted(rt.attempt, retryConfig)
                 THEN [r1 EXCEPT !.pc = "thrown", !.thrown = error]
                 ELSE [r1 EXCEPT !.pc = "sleep",
                                 !.sleeps = Append(@, retryDelay(error, rt.attempt, retryConfig))]
    /\ UNCHANGED retryConfig
    /\ UNCHANGED nonRetryVars

\* the setTimeout of the backoff fires: attempt++ and the loop goes round
RetryWake ==
    /\ rt.pc = "sleep"
    /\ rt' = [rt EXCEPT !.pc = "call", !.attempt = @ + 1]
    /\ UNCHANGED retryConfig
    /\ UNCHANGED nonRetryVars

\* the names the two providers give to the ProviderError constructor
ETHERSCAN == "Etherscan"
SOLANA_RPC == "Solana RPC"

\* mutant of providerCatch: every error is rethrown as it is
providerCatchRethrow(error, provider) == error

\* the catch block of a provider around its retryWithBackoff call: a
\* ProviderError is rethrown, anything else is wrapped in a new ProviderError
\* that names the provider and has no status code
providerCatch(error, provider) ==
    IF error.kind = "ProviderError" THEN error
    ELSE SDKError("ProviderError", provider, Undefined, Undefined, 0)

\* retryWithBackoff has thrown inside the provider's try block: the catch
\* block runs and its error reaches the caller of getTransactions
ProviderCatch ==
    /\ rt.pc = "thrown"
    /\ rt.surfaced = NoError
    /\ \E provider \in {ETHERSCAN, SOLANA_RPC} : rt' = [rt EXCEPT !.surfaced = providerCatch(rt.thrown, provider)]
    /\ UNCHANGED retryConfig
    /\ UNCHANGED nonRetryVars

RetryNext ==
    \/ RetryCallSucceeds
    \/ \E shape \in ErrorShapes : RetryCallFails(shape)
    \/ RetryWake
    \/ ProviderCatch

(***************************************************************************)
(* MemoryCache (cache/memory-cache.ts)                                     *)
(***************************************************************************)
\* number of cache operations called directly on the store
MaxOps == 3

\* `x || fallback` on an optional number: undefined and 0 are falsy
OrElse(x, fallback) == IF x = Undefined \/ x = 0 THEN fallback ELSE x

\* an entry of the Map, with the key it is stored under
Entry(key, value, expiresAt, createdAt) ==
    [key |-> key, value |-> value, expiresAt |-> expiresAt, createdAt |-> createdAt]

\* what Map.get gives for a key that is not in the Map
NoEntry == Entry("", Undefined, 0, 0)

\* new MemoryCache(config)
NewMemoryCache(config) ==
    [ defaultTtl |-> OrElse(config.defaultTtl, 60000),
      maxSize    |-> OrElse(config.maxSize, Infinity),
      enabled    |-> config.enabled # FALSE,
      cache      |-> <<>> ]

\* Map.get, Map.set (an existing key keeps its place in the iteration
\* order), Map.delete
mapHas(c, key) == \E i \in 1..Len(c) : c[i].key = key

mapGet(c, key) ==
    IF mapHas(c, key) THEN c[CHOOSE i \in 1..Len(c) : c[i].key = key] ELSE NoEntry

mapSet(c, entry) ==
    IF mapHas(c, entry.key)
    THEN [i \in 1..Len(c) |-> IF c[i].key = entry.key THEN entry ELSE c[i]]
    ELSE Append(c, entry)

mapDelete(c, key) == SelectSeq(c, LAMBDA e : e.key # key)

isExpired(entry, t) == t > entry.expiresAt

\* mutant of evictExpired: nothing is purged
evictExpiredNothing(c, t) == c

evictExpired(c, t) == SelectSeq(c, LAMBDA e : ~(t > e.expiresAt))

\* Array.prototype.sort by createdAt; the sort is stable
RECURSIVE insertSorted(_, _)
insertSorted(sorted, e) ==
    IF sorted = <<>> THEN <<e>>
    ELSE IF sorted[Len(sorted)].createdAt <= e.createdAt THEN Append(sorted, e)
    ELSE Append(insertSorted(SubSeq(sorted, 1, Len(sorted) - 1), e), sorted[Len(sorted)])

RECURSIVE sortByCreatedAt(_)
sortByCreatedAt(c) ==
    IF c = <<>> THEN <<>>
    ELSE insertSorted(sortByCreatedAt(SubSeq(c, 1, Len(c) - 1)), c[Len(c)])

\* `this.cache.size < this.maxSize`
belowMaxSize(n, maxSize) == maxSize = Infinity \/ n < maxSize

\* mutant of evictOldest: the newest entries are removed
evictNewest(c, maxSize) ==
    IF belowMaxSize(Len(c), maxSize) THEN c
    ELSE LET entries == sortByCreatedAt(c)
             toRemove == Len(c) - maxSize + 1
             gone == {entries[Len(c) + 1 - i].key : i \in 1..toRemove}
         IN  SelectSeq(c, LAMBDA e : e.key \notin gone)

evictOldest(c, maxSize) ==
    IF belowMaxSize(Len(c), maxSize) THEN c
    ELSE LET entries == sortByCreatedAt(c)
             toRemove == Len(c) - maxSize + 1
             gone == {entries[i].key : i \in 1..toRemove}
         IN  SelectSeq(c, LAMBDA e : e.key \notin gone)

\* mutant of memGet: the entry found is returned without looking at its expiry
memGetRaw(m, key, t) ==
    IF ~m.enabled THEN <<m, Undefined>>
    ELSE <<m, mapGet(m.cache, key).value>>

\* get(key) at time t: <<the store it leaves, its result>>
memGet(m, key, t) ==
    IF ~m.enabled THEN <<m, Undefined>>
    ELSE LET c1 == evictExpired(m.cache, t)
             entry == mapGet(c1, key)
         IN  IF entry = NoEntry THEN <<[m EXCEPT !.cache = c1], Undefined>>
             ELSE IF isExpired(entry, t)
             THEN <<[m EXCEPT !.cache = mapDelete(c1, key)], Undefined>>
             ELSE <<[m EXCEPT !.cache = c1], entry.value>>

\* mutant of memSet: the ttl is stored as the expiry time, not added to now
memSetAbsoluteTtl(m, key, value, ttl, t) ==
    IF ~m.enabled THEN m
    ELSE LET c1 == evictExpired(m.cache, t)
             c2 == evictOldest(c1, m.maxSize)
             expiresAt == OrElse(ttl, m.defaultTtl)
         IN  [m EXCEPT !.cache = mapSet(c2, Entry(key, value, expiresAt, t))]

\* set(key, value, ttl) at time t: the store it leaves
memSet(m, key, value, ttl, t) ==
    IF ~m.enabled THEN m
    ELSE LET c1 == evictExpired(m.cache, t)
             c2 == evictOldest(c1, m.maxSize)
             expiresAt == t + OrElse(ttl, m.defaultTtl)
         IN  [m EXCEPT !.cache = mapSet(c2, Entry(key, value, expiresAt, t))]

memDelete(m, key) == [m EXCEPT !.cache = mapDelete(m.cache, key)]

memClear(m) == [m EXCEPT !.cache = <<>>]

\* has(key) at time t: <<the store it leaves, its result>>
memHas(m, key, t) ==
    IF ~m.enabled THEN <<m, FALSE>>
    ELSE LET c1 == evictExpired(m.cache, t)
             entry == mapGet(c1, key)
         IN  IF entry = NoEntry THEN <<[m EXCEPT !.cache = c1], FALSE>>
             ELSE IF isExpired(entry, t)
             THEN <<[m EXCEPT !.cache = mapDelete(c1, key)], FALSE>>
             ELSE <<[m EXCEPT !.cache = c1], TRUE>>

\* size() at time t: <<the store it leaves, its result>>
memSize(m, t) ==
    LET c1 == evictExpired(m.cache, t) IN <<[m EXCEPT !.cache = c1], Len(c1)>>

(***************************************************************************)
(* TransactionCache and its key generator (cache/transaction-cache.ts)     *)
(***************************************************************************)
\* Network enum values
ETHEREUM_MAINNET == "ethereum-mainnet"
SOLANA_MAINNET == "solana-mainnet"

\* a string whose characters matter is a sequence of one-character strings
UpperCase == {"A", "B", "W"}
LowerOf == ("A" :> "a") @@ ("B" :> "b") @@ ("W" :> "w")

\* String.prototype.toLowerCase
toLowerCase(str) == [i \in 1..Len(str) |-> IF str[i] \in UpperCase THEN LowerOf[str[i]] ELSE str[i]]

\* the string a sequence of characters spells
RECURSIVE StrOf(_)
StrOf(chars) == IF chars = <<>> THEN "" ELSE chars[1] \o StrOf(Tail(chars))

\* Array.prototype.join
RECURSIVE join(_, _)
join(parts, sep) ==
    IF parts = <<>> THEN ""
    ELSE IF Len(parts) = 1 THEN parts[1]
    ELSE parts[1] \o sep \o join(Tail(parts), sep)

\* an options object; an absent property is Undefined, an absent cursor the
\* empty sequence, an absent options object the object with no property
Options(limit, page, cursor, startTime, endTime) ==
    [limit |-> limit, page |-> page, cursor |-> cursor, startTime |-> startTime, endTime |-> endTime]

NoOptions == Options(Undefined, Undefined, <<>>, Undefined, Undefined)

\* `n?.toString() || fallback`: the decimal string of a number is never empty
numberPart(n, fallback) == IF n = Undefined THEN fallback ELSE ToString(n)

\* `options?.cursor || ''`
cursorPart(cursor) == IF cursor = <<>> THEN "" ELSE cursor[1]

\* mutant of generateKey: the address is used as given
generateKeyCaseKept(network, address, options) ==
    join(<<"tx", network, StrOf(address),
           numberPart(options.limit, "100"), numberPart(options.page, "1"),
           cursorPart(options.cursor),
           numberPart(options.startTime, ""), numberPart(options.endTime, "")>>, ":")

\* TransactionCacheKeyGenerator.generateKey
generateKey(network, address, options) ==
    join(<<"tx", network, StrOf(toLowerCase(address)),
           numberPart(options.limit, "100"), numberPart(options.page, "1"),
           cursorPart(options.cursor),
           numberPart(options.startTime, ""), numberPart(options.endTime, "")>>, ":")

\* new TransactionCache(config): the MemoryCache it creates
NewTransactionCache(config) ==
    NewMemoryCache([defaultTtl |-> OrElse(config.defaultTtl, 30000),
                    maxSize    |-> OrElse(config.maxSize, 100),
                    enabled    |-> config.enabled # FALSE])

\* TransactionCache.get: <<the store it leaves, its result>>
txGet(m, network, address, options, t) == memGet(m, generateKey(network, address, options), t)

\* TransactionCache.set
txSet(m, network, address, response, options, ttl, t) ==
    memSet(m, generateKey(network, address, options), response, ttl, t)

\* mutant of txInvalidate: only the address's entry for the default options is deleted
txInvalidateOneKey(m, network, address) == memDelete(m, generateKey(network, address, NoOptions))

\* TransactionCache.invalidate: the whole store is cleared
txInvalidate(m, network, address) == memClear(m)

\* the addresses and queries explored: two spellings of one Ethereum address
\* (scaled down to two hexadecimal digits), and a Solana public key
EthUpper == <<"0", "x", "A", "b">>
EthLower == <<"0", "x", "a", "b">>
SolKey == <<"9", "W", "z">>
\* another public key, which differs from SolKey in the case of one letter
SolKeyLower == <<"9", "w", "z">>

CacheQueries ==
    { [network |-> ETHEREUM_MAINNET, address |-> EthUpper, options |-> NoOptions],
      [network |-> ETHEREUM_MAINNET, address |-> EthLower, options |-> NoOptions],
      [network |-> ETHEREUM_MAINNET, address |-> EthLower,
       options |-> Options(10, Undefined, <<>>, Undefined, Undefined)],
      [network |-> SOLANA_MAINNET, address |-> SolKey, options |-> NoOptions] }

KeyOf(q) == generateKey(q.network, q.address, q.options)
CacheKeys == {KeyOf(q) : q \in CacheQueries}

\* the time steps of the clock while a cache is used
CacheSteps == {250}

\* the ttl arguments passed to set: omitted, 0 and a quarter of a second
TtlChoices == {Undefined, 0, 250}

\* configurations the caches are constructed with
DefaultCacheConfig == [defaultTtl |-> Undefined, maxSize |-> Undefined, enabled |-> TRUE]
CacheConfigs ==
    { DefaultCacheConfig,
      [defaultTtl |-> 250, maxSize |-> 2, enabled |-> TRUE],
      [defaultTtl |-> Undefined, maxSize |-> 1, enabled |-> TRUE],
      [defaultTtl |-> Undefined, maxSize |-> Undefined, enabled |-> FALSE] }

(***************************************************************************)
(* Operations on the cache                                                 *)
(***************************************************************************)
\* the query of an operation that takes none
NoQuery == [network |-> "", address |-> <<>>, options |-> NoOptions]

\* what is recorded of a direct cache operation: its arguments and result, the
\* time, and of the store before it: the number of entries (len), of
\* unexpired entries (held), whether the key had an unexpired (had) or an
\* expired (stale) entry; writers maps a key to the address spelling of the
\* last set of that key
Observe(op, q, key, value, ttl, result, found) ==
    [op |-> op, q |-> q, key |-> key, value |-> value, ttl |-> ttl, result |-> result, found |-> found,
     time |-> now,
     len |-> Len(mc.cache),
     held |-> Cardinality({i \in 1..Len(mc.cache) : mc.cache[i].expiresAt >= now}),
     had  |-> \E i \in 1..Len(mc.cache) : mc.cache[i].key = key /\ mc.cache[i].expiresAt >= now,
     stale |-> \E i \in 1..Len(mc.cache) : mc.cache[i].key = key /\ mc.cache[i].expiresAt < now,
     writers |-> IF op = "set" THEN [obs.writers EXCEPT ![key] = q.address] ELSE obs.writers]

CacheStep ==
    /\ ops < MaxOps
    /\ ops' = ops + 1
    /\ UNCHANGED <<limiterVars, retryVars, clientVars, requestVars, queueVars>>

\* TransactionCache.set(network, address, response, options, ttl); the
\* response stored is a new object, numbered by the operation
TxSet(q, ttl) ==
    /\ CacheStep
    /\ mc' = txSet(mc, q.network, q.address, ops + 1, q.options, ttl, now)
    /\ obs' = Observe("set", q, KeyOf(q), ops + 1, ttl, Undefined, FALSE)

TxGet(q) ==
    /\ CacheStep
    /\ \E r \in {txGet(mc, q.network, q.address, q.options, now)} :
          /\ mc' = r[1]
          /\ obs' = Observe("get", q, KeyOf(q), Undefined, Undefined, r[2], r[2] # Undefined)

TxInvalidate(q) ==
    /\ CacheStep
    /\ mc' = txInvalidate(mc, q.network, q.address)
    /\ obs' = Observe("invalidate", q, KeyOf(q), Undefined, Undefined, Undefined, FALSE)

MemHas(key) ==
    /\ CacheStep
    /\ \E r \in {memHas(mc, key, now)} :
          /\ mc' = r[1]
          /\ obs' = Observe("has", NoQuery, key, Undefined, Undefined, Undefined, r[2])

MemDelete(key) ==
    /\ CacheStep
    /\ mc' = memDelete(mc, key)
    /\ obs' = Observe("delete", NoQuery, key, Undefined, Undefined, Undefined, FALSE)

MemClear ==
    /\ CacheStep
    /\ mc' = memClear(mc)
    /\ obs' = Observe("clear", NoQuery, "", Undefined, Undefined, Undefined, FALSE)

MemSize ==
    /\ CacheStep
    /\ \E r \in {memSize(mc, now)} :
          /\ mc' = r[1]
          /\ obs' = Observe("size", NoQuery, "", Undefined, Undefined, r[2], FALSE)

NoObservation ==
    [op |-> "none", q |-> NoQuery, key |-> "", value |-> Undefined, ttl |-> Undefined, result |-> Undefined,
     found |-> FALSE, time |-> 0, len |-> 0, held |-> 0, had |-> FALSE, stale |-> FALSE,
     writers |-> [k \in CacheKeys |-> <<>>]]

\* no cache has been constructed
CacheIdle ==
    /\ mc = NewMemoryCache([defaultTtl |-> Undefined, maxSize |-> Undefined, enabled |-> FALSE])
    /\ ops = 0
    /\ obs = NoObservation

(***************************************************************************)
(* Address formats (utils/validation.ts)                                   *)
(***************************************************************************)
HexChars == {"0", "1", "9", "a", "b", "c", "d", "A", "B"}
Base58Chars == {"1", "9", "a", "b", "c", "d", "w", "z", "A", "B", "W"}

\* /^0x[a-fA-F0-9]{40}$/, with the 40 digits scaled down to 2
isValidEthereumAddress(address) ==
    /\ Len(address) = 4
    /\ address[1] = "0" /\ address[2] = "x"
    /\ \A i \in 3..4 : address[i] \in HexChars

\* /^[1-9A-HJ-NP-Za-km-z]{32,44}$/, with the lengths 32..44 scaled down to 3..4
isValidSolanaPublicKey(publicKey) ==
    /\ Len(publicKey) \in 3..4
    /\ \A i \in 1..Len(publicKey) : publicKey[i] \in Base58Chars

\* a null Network
NoNetwork == ""

detectNetwork(address) ==
    IF isValidEthereumAddress(address) THEN ETHEREUM_MAINNET
    ELSE IF isValidSolanaPublicKey(address) THEN SOLANA_MAINNET
    ELSE NoNetwork

getNetworkFromAddress(address) == detectNetwork(address)

(***************************************************************************)
(* BlockchainSDK (client.ts)                                               *)
(***************************************************************************)
\* number of getTransactions calls the environment makes
MaxClientCalls == 2

\* an address of neither format
BadAddress == <<"0", "x", "z">>

\* the getTransactions arguments explored
ClientQueries ==
    { [address |-> EthUpper, options |-> NoOptions],
      [address |-> EthLower, options |-> Options(10, Undefined, <<>>, Undefined, Undefined)],
      [address |-> SolKey, options |-> NoOptions],
      [address |-> BadAddress, options |-> NoOptions] }


\* the arguments of invalidateCache explored
InvalidateArgs ==
    { [network |-> ETHEREUM_MAINNET, address |-> EthUpper],
      [network |-> SOLANA_MAINNET, address |-> SolKey] }

\* the SDK configurations explored
SDKConfigs ==
    { [cache |-> [enabled |-> TRUE, ttl |-> Undefined, maxSize |-> Undefined], ethereum |-> TRUE,
       etherscanApiKey |-> TRUE, solana |-> TRUE],
      [cache |-> [enabled |-> TRUE, ttl |-> 250, maxSize |-> 1], ethereum |-> TRUE,
       etherscanApiKey |-> TRUE, solana |-> FALSE] }

\* the constructor: a TransactionCache only if config.cache.enabled, an
\* adapter for each configured network; etherscanApiKey is whether the
\* Ethereum provider was given an API key (it may have an rpcUrl only)
NewSDK(config) ==
    [cache |-> config.cache.enabled, ethereumAdapter |-> config.ethereum,
     etherscanApiKey |-> config.ethereum /\ config.etherscanApiKey, solanaAdapter |-> config.solana]

NewSDKCache(config) ==
    IF config.cache.enabled
    THEN NewTransactionCache([enabled |-> config.cache.enabled, defaultTtl |-> config.cache.ttl,
                              maxSize |-> config.cache.maxSize])
    ELSE NewMemoryCache([defaultTtl |-> Undefined, maxSize |-> Undefined, enabled |-> FALSE])

\* a record of callLog
Call(q, network, outcome, result, error, fetched) ==
    [address |-> q.address, options |-> q.options, network |-> network, start |-> now, end |-> now,
     outcome |-> outcome, result |-> result, error |-> error, fetched |-> fetched,
     mutAtStart |-> lastMut, cachedAfter |-> Undefined]

\* lastMut.set is the call whose response was stored by the last change of the
\* SDK's cache, or 0; lastMut.dropped is the call whose stored response the
\* last change, an invalidateCache of that call's network and address, removed
NoMutation == [set |-> 0, dropped |-> 0]

\* mutant of cacheLookup: the cache is not consulted
cacheLookupSkipped(s, m, network, address, options, t) == <<m, Undefined>>

\* `if (this.cache) { const cached = this.cache.get(...) }`:
\* <<the store it leaves, the cached response or Undefined>>
cacheLookup(s, m, network, address, options, t) ==
    IF s.cache THEN txGet(m, network, address, options, t) ELSE <<m, Undefined>>

\* mutant of cacheStore: an entry that is still held is not overwritten
cacheStoreIfAbsent(s, m, network, address, result, options, t) ==
    IF s.cache /\ txGet(m, network, address, options, t)[2] = Undefined
    THEN txSet(m, network, address, result, options, Undefined, t)
    ELSE m

\* `if (this.cache) { this.cache.set(network, address, result, options) }`
cacheStore(s, m, network, address, result, options, t) ==
    IF s.cache THEN txSet(m, network, address, result, options, Undefined, t) ELSE m

\* whether the adapter of a network exists
hasAdapter(s, network) ==
    IF network = ETHEREUM_MAINNET THEN s.ethereumAdapter ELSE s.solanaAdapter

\* mutant of sdkInvalidateCache: nothing is invalidated
sdkInvalidateCacheNothing(s, m, network, address) == m

\* invalidateCache(network, address)
sdkInvalidateCache(s, m, network, address) ==
    IF s.cache THEN txInvalidate(m, network, address) ELSE m

ClientStep == UNCHANGED <<limiterVars, retryVars, ops, obs, requestVars, queueVars>>

\* getTransactions(address, options) up to its return, its throw or its
\* await of the adapter
GetTransactions(q) ==
    /\ Len(callLog) < MaxClientCalls
    /\ ClientStep
    /\ LET network == getNetworkFromAddress(q.address)
       IN  IF network = NoNetwork
           THEN /\ callLog' = Append(callLog, Call(q, network, "error", Undefined, "ValidationError", FALSE))
                /\ UNCHANGED <<mc, sdk, inflight, fetches, lastMut>>
           ELSE \E r \in {cacheLookup(sdk, mc, network, q.address, q.options, now)} :
                  /\ mc' = r[1]
                  /\ UNCHANGED <<sdk, lastMut>>
                  /\ IF r[2] # Undefined
                     THEN /\ callLog' = Append(callLog, Call(q, network, "hit", r[2], "", FALSE))
                          /\ UNCHANGED <<inflight, fetches>>
                     ELSE IF ~hasAdapter(sdk, network)
                     THEN /\ callLog' = Append(callLog, Call(q, network, "error", Undefined, "ConfigurationError", FALSE))
                          /\ UNCHANGED <<inflight, fetches>>
                     ELSE /\ callLog' = Append(callLog, Call(q, network, "pending", Undefined, "", TRUE))
                          /\ inflight' = Append(inflight, Len(callLog) + 1)
                          /\ fetches' = fetches + 1

\* the adapter's promise of an in-flight call is fulfilled: the response (a
\* new object, numbered by the call) is cached and returned
FetchSucceeds(i) ==
    /\ ClientStep
    /\ LET id == inflight[i]
           c == callLog[id]
       IN  \E m \in {cacheStore(sdk, mc, c.network, c.address, id, c.options, now)} :
             /\ mc' = m
             /\ lastMut' = IF sdk.cache THEN [set |-> id, dropped |-> 0] ELSE lastMut
             /\ callLog' = [callLog EXCEPT ![id] =
                               [c EXCEPT !.outcome = "fetched", !.result = id, !.end = now,
                                         !.cachedAfter = txGet(m, c.network, c.address, c.options, now)[2]]]
    /\ inflight' = RemoveAt(inflight, i)
    /\ UNCHANGED <<sdk, fetches>>

\* the adapter's promise of an in-flight call is rejected: the error is rethrown
FetchFails(i) ==
    /\ ClientStep
    /\ callLog' = [callLog EXCEPT ![inflight[i]] =
                      [@ EXCEPT !.outcome = "error", !.error = "ProviderError", !.end = now]]
    /\ inflight' = RemoveAt(inflight, i)
    /\ UNCHANGED <<mc, sdk, fetches, lastMut>>

InvalidateCache(a) ==
    /\ ClientStep
    /\ mc' = sdkInvalidateCache(sdk, mc, a.network, a.address)
    /\ lastMut' = IF ~sdk.cache THEN lastMut
                  ELSE IF /\ lastMut.set # 0
                          /\ callLog[lastMut.set].network = a.network
                          /\ callLog[lastMut.set].address = a.address
                  THEN [set |-> 0, dropped |-> lastMut.set]
                  ELSE [set |-> 0, dropped |-> 0]
    /\ UNCHANGED <<sdk, inflight, callLog, fetches>>

\* clearCache()
ClearCache ==
    /\ ClientStep
    /\ mc' = IF sdk.cache THEN memClear(mc) ELSE mc
    /\ lastMut' = IF sdk.cache THEN NoMutation ELSE lastMut
    /\ UNCHANGED <<sdk, inflight, callLog, fetches>>

\* no SDK has been constructed
ClientIdle ==
    /\ sdk = [cache |-> FALSE, ethereumAdapter |-> FALSE, etherscanApiKey |-> FALSE, solanaAdapter |-> FALSE]
    /\ inflight = <<>>
    /\ callLog = <<>>
    /\ fetches = 0
    /\ lastMut = NoMutation

(***************************************************************************)
(* Backend responses (the REST indexer and the JSON-RPC node)              *)
(***************************************************************************)
\* the longest page of records a backend returns, besides a full default page
MaxPage == 2

\* `options.limit || 100` of both providers
DefaultLimit == 100

\* the i-th record of the REST indexer's list, newest first; timeStamp is in
\* seconds
RawTransaction(i) ==
    [hash |-> "h" \o ToString(i), timeStamp |-> 200 - i, gasUsed |-> 21000, gasPrice |-> i]

\* the i-th position record of the node, newest first; blockTime is in
\* seconds, and 0 stands for a null blockTime (both are falsy)
SignatureInfo(i) ==
    [signature |-> "s" \o ToString(i), slot |-> 1000 - i, blockTime |-> IF i = 2 THEN 0 ELSE 200 - i]

\* the detail record the node holds for the i-th position record
TransactionDetails(i) == [isNull |-> FALSE, slot |-> 1000 - i, fee |-> 5000 + i]

\* getTransaction's result for pruned data: null
NullDetails == [isNull |-> TRUE, slot |-> 0, fee |-> 0]

RawPage(n) == [i \in 1..n |-> RawTransaction(i)]
SignaturePage(n) == [i \in 1..n |-> SignatureInfo(i)]

NO_TRANSACTIONS == "No transactions found"

\* the bodies of the indexer's 200 responses: result is an array, or a string
\* (text), or neither
EtherscanEnvelope(status, isArray, result, text) ==
    [status |-> status, isArray |-> isArray, result |-> result, text |-> text]

EtherscanEnvelopes(lengths) ==
    {EtherscanEnvelope("1", TRUE, RawPage(n), "") : n \in lengths}
    \cup { EtherscanEnvelope("0", FALSE, <<>>, NO_TRANSACTIONS),
           EtherscanEnvelope("0", FALSE, <<>>, "Invalid API Key"),
           EtherscanEnvelope("1", FALSE, <<>>, "") }

\* the numeric code of a JSON-RPC error envelope
RPC_INVALID_PARAMS == 0 - 32602

\* the bodies of the node's 200 responses: error is the code of the error
\* member or Undefined, hasResult is whether the result member is there
RpcEnvelope(error, hasResult, result) == [error |-> error, hasResult |-> hasResult, result |-> result]

SignatureEnvelopes(lengths) ==
    {RpcEnvelope(Undefined, TRUE, SignaturePage(n)) : n \in lengths}
    \cup { RpcEnvelope(RPC_INVALID_PARAMS, FALSE, <<>>), RpcEnvelope(Undefined, FALSE, <<>>) }

DetailEnvelopes(i) ==
    { RpcEnvelope(Undefined, TRUE, TransactionDetails(i)),
      RpcEnvelope(Undefined, TRUE, NullDetails),
      RpcEnvelope(RPC_INVALID_PARAMS, FALSE, NullDetails) }

\* what httpRequest throws: a timeout or connection failure, a 429, another
\* status that is not OK
HttpFailures ==
    { SDKError("NetworkError", "", Undefined, Undefined, 0),
      SDKError("RateLimitError", "", Undefined, 2, 0),
      SDKError("ProviderError", "", 503, Undefined, 0),
      SDKError("ProviderError", "", 404, Undefined, 0) }

\* the configuration both providers pass to retryWithBackoff
ProviderRetryConfig ==
    [DEFAULT_RETRY_CONFIG EXCEPT !.maxRetries = 3, !.retryableStatusCodes = ProviderCodes]

\* the number of requests retryWithBackoff sends when every attempt fails
\* with `error`
attemptsOf(error, config) ==
    IF isRetryableError(error, config) THEN config.maxRetries + 1 ELSE 1

(***************************************************************************)
(* PaginatedResponse and the completion of an asynchronous call            *)
(***************************************************************************)
\* PaginationMetadata; an unset number is Undefined, an unset nextCursor ""
Pagination(hasMore, page, totalPages, total, nextCursor) ==
    [hasMore |-> hasMore, page |-> page, totalPages |-> totalPages, total |-> total, nextCursor |-> nextCursor]

Response(data, pagination) == [data |-> data, pagination |-> pagination]

NoResponse == Response(<<>>, Pagination(FALSE, Undefined, Undefined, Undefined, ""))

\* a promise fulfilled with `value`, and one rejected with `error`
Return(value) == [ok |-> TRUE, value |-> value, error |-> NoError]
Throw(error) == [ok |-> FALSE, value |-> NoResponse, error |-> error]

(***************************************************************************)
(* EthereumProvider (providers/ethereum.ts)                                *)
(***************************************************************************)
\* transformTransaction(tx): timestamp in milliseconds
ethTransformTransaction(tx) ==
    [network |-> ETHEREUM_MAINNET, hash |-> tx.hash, timestamp |-> tx.timeStamp * 1000,
     fee |-> tx.gasUsed * tx.gasPrice]

\* mutant of ethHasMore: a page counts as full one record early
ethHasMoreEarly(count, limit) == count + 1 >= limit

\* `transactions.length === limit`
ethHasMore(count, limit) == count = limit

\* getTransactions from `const data = response.data` to its return or throw
ethParse(data, limit, page) ==
    IF data.status = "0" /\ ~data.isArray
    THEN IF data.text = NO_TRANSACTIONS
         THEN Return(Response(<<>>, Pagination(FALSE, page, 0, 0, "")))
         ELSE Throw(SDKError("ProviderError", ETHERSCAN, Undefined, Undefined, 0))
    ELSE IF ~data.isArray
    THEN Throw(SDKError("ProviderError", ETHERSCAN, Undefined, Undefined, 0))
    ELSE LET transactions == [i \in 1..Len(data.result) |-> ethTransformTransaction(data.result[i])]
             hasMore == ethHasMore(Len(transactions), limit)
         IN  Return(Response(transactions,
                             Pagination(hasMore, page, IF hasMore THEN Undefined ELSE page, Undefined, "")))

(***************************************************************************)
(* SolanaProvider (providers/solana.ts)                                    *)
(***************************************************************************)
\* rpcRequest from `const data = response.data` to its return or throw; the
\* value returned is data.result
rpcParse(data) ==
    IF data.error # Undefined
    THEN Throw(SDKError("ProviderError", SOLANA_RPC, data.error, Undefined, 0))
    ELSE IF ~data.hasResult
    THEN Throw(SDKError("ProviderError", SOLANA_RPC, Undefined, Undefined, 0))
    ELSE Return(data.result)

\* transformTransaction(sigInfo, details) for details that are not null
solTransformTransaction(sigInfo, details, t) ==
    [network |-> SOLANA_MAINNET, hash |-> sigInfo.signature,
     timestamp |-> IF sigInfo.blockTime # 0 THEN sigInfo.blockTime * 1000 ELSE t,
     fee |-> details.fee]

\* `signatures.map((sig, index) => transformTransaction(sig,
\* transactionDetails[index])).filter((tx) => tx !== null)`
solTransactions(signatures, transactionDetails, t) ==
    LET kept == SelectSeq([i \in 1..Len(signatures) |-> i], LAMBDA i : ~transactionDetails[i].isNull)
    IN  [k \in 1..Len(kept) |-> solTransformTransaction(signatures[kept[k]], transactionDetails[kept[k]], t)]

\* mutant of solNextCursor: the cursor is the last transaction returned
solNextCursorOfData(signatures, transactions, hasMore) ==
    IF hasMore /\ Len(transactions) > 0 THEN transactions[Len(transactions)].hash ELSE ""

\* `hasMore ? signatures[signatures.length - 1].signature : undefined`
solNextCursor(signatures, transactions, hasMore) ==
    IF hasMore THEN signatures[Len(signatures)].signature ELSE ""

\* getTransactions after the detail records have been collected
solPage(signatures, transactionDetails, limit, t) ==
    LET transactions == solTransactions(signatures, transactionDetails, t)
        hasMore == Len(signatures) = limit
    IN  Response(transactions,
                 Pagination(hasMore, Undefined, Undefined, Undefined, solNextCursor(signatures, transactions, hasMore)))

(***************************************************************************)
(* The adapters (adapters/ethereum.ts, adapters/solana.ts)                 *)
(***************************************************************************)
\* mutant of validateAddress: every address is accepted
validateAddressAny(network, address) == TRUE

\* validateAddress of the adapter of a network
validateAddress(network, address) ==
    IF network = ETHEREUM_MAINNET THEN isValidEthereumAddress(address) ELSE isValidSolanaPublicKey(address)

\* the options the adapter hands to its provider: EthereumAdapter's
\* applyTimeRangeFilter keeps limit, page and cursor
providerOptions(network, options) ==
    IF network = ETHEREUM_MAINNET
    THEN Options(options.limit, options.page, options.cursor, Undefined, Undefined)
    ELSE options

\* mutant of filterTransactions: the bounds are exclusive
filterTransactionsExclusive(transactions, options) ==
    SelectSeq(transactions,
              LAMBDA tx : /\ (options.startTime # Undefined => tx.timestamp > options.startTime)
                          /\ (options.endTime # Undefined => tx.timestamp < options.endTime))

\* filterTransactions(transactions, options) of both adapters
filterTransactions(transactions, options) ==
    LET afterStart == IF options.startTime # Undefined
                      THEN SelectSeq(transactions, LAMBDA tx : tx.timestamp >= options.startTime)
                      ELSE transactions
    IN  IF options.endTime # Undefined
        THEN SelectSeq(afterStart, LAMBDA tx : tx.timestamp <= options.endTime)
        ELSE afterStart

\* mutant of adapterPagination: hasMore is recomputed from the filtered page
adapterPaginationRecomputed(response, filtered, options) ==
    [response.pagination EXCEPT !.hasMore = (Len(filtered) = OrElse(options.limit, DefaultLimit))]

\* `pagination: response.pagination`
adapterPagination(response, filtered, options) == response.pagination

\* the adapter's getTransactions after its provider has returned `response`
adapterResponse(response, options) ==
    LET filtered == filterTransactions(response.data, options)
    IN  Response(filtered, adapterPagination(response, filtered, options))

(***************************************************************************)
(* One SDK call traced through the adapter and the provider                *)
(***************************************************************************)
GET_TRANSACTIONS == "getTransactions"
GET_ETHEREUM_TRANSACTIONS == "getEthereumTransactions"
GET_SOLANA_TRANSACTIONS == "getSolanaTransactions"

\* a call: the entry point and its arguments
Query(entry, address, options) == [entry |-> entry, address |-> address, options |-> options]

\* the name a provider gives to its errors
providerName(network) == IF network = ETHEREUM_MAINNET THEN ETHERSCAN ELSE SOLANA_RPC

\* pc is "idle", "acquire" or "http" (the page request waits for the limiter,
\* is inside retryWithBackoff), "details" (Promise.all is awaited),
\* "returned" or "thrown"; limit and page are the provider's locals;
\* signatures is the page of position records, calls the position of the
\* detail call of each ("acquire", "http", "done", "failed"), details the array
\* Promise.all collects, order the order in which the calls were fulfilled;
\* records is the number of records of the page the backend returned (0 for
\* "No transactions found"), or Undefined when it returned no page; status is
\* the HTTP status of a response that was not OK, or the code of a JSON-RPC
\* error, that the backend supplied, or Undefined; upstream is the provider's
\* response and result the caller's; hit is the cached response returned;
\* before is what the cache held, unexpired, when the call began
IdleRequest ==
    [pc |-> "idle", entry |-> "", address |-> <<>>, options |-> NoOptions, network |-> NoNetwork,
     limit |-> 0, page |-> 0, signatures |-> <<>>, calls |-> <<>>, details |-> <<>>, order |-> <<>>,
     records |-> Undefined, status |-> Undefined,
     upstream |-> NoResponse, result |-> NoResponse, hit |-> Undefined, error |-> NoError,
     start |-> 0, before |-> <<>>]

\* the status of the response that made httpRequest throw `error`: 429 for a
\* RateLimitError, response.status for a ProviderError, none for a NetworkError
httpStatus(error) == IF error.kind = "RateLimitError" THEN 429 ELSE error.statusCode

ZeroWire == [admissions |-> 0, requests |-> 0, retries |-> 0]

RequestStep == UNCHANGED <<limiterVars, retryVars, ops, obs, clientVars, queueVars>>

\* the network whose adapter an entry point uses
entryNetwork(entry, address) ==
    IF entry = GET_ETHEREUM_TRANSACTIONS THEN ETHEREUM_MAINNET
    ELSE IF entry = GET_SOLANA_TRANSACTIONS THEN SOLANA_MAINNET
    ELSE getNetworkFromAddress(address)

\* mutant of cacheOnError: the failed call is cached
cacheOnErrorStored(s, m, r, id, t) == cacheStore(s, m, r.network, r.address, id, r.options, t)

\* the cache after the await of the adapter has thrown: the statements that
\* write the cache are not reached
cacheOnError(s, m, r, id, t) == m

\* mutant of cacheOnReturn: every entry point stores the response
cacheOnReturnAlways(s, m, r, id, t) == cacheStore(s, m, r.network, r.address, id, r.options, t)

\* the cache after the adapter has returned: getTransactions stores the
\* response, the network-specific entry points have no cache code
cacheOnReturn(s, m, r, id, t) ==
    IF r.entry = GET_TRANSACTIONS THEN cacheStore(s, m, r.network, r.address, id, r.options, t) ELSE m

\* a record of served: a call that has ended
Served(outcome, r) == [outcome |-> outcome, entry |-> r.entry, address |-> r.address, options |-> r.options]

\* the call ends by throwing `error`
Fails(r, m, error) ==
    /\ req' = [r EXCEPT !.pc = "thrown", !.error = error]
    /\ mc' = cacheOnError(sdk, m, r, Len(served) + 1, now)
    /\ served' = Append(served, Served("thrown", r))

\* the provider has returned `response`: the adapter filters it, the SDK
\* caches and returns it
Returns(r, response) ==
    /\ req' = [r EXCEPT !.pc = "returned", !.upstream = response,
                        !.result = adapterResponse(response, r.options)]
    /\ mc' = cacheOnReturn(sdk, mc, r, Len(served) + 1, now)
    /\ served' = Append(served, Served("returned", r))

\* a provider's getTransactions or rpcRequest settles with `completion`
\* inside the try block: what leaves its catch block
throughCatch(completion, network) ==
    IF completion.ok THEN completion ELSE Throw(providerCatch(completion.error, providerName(network)))

\* one of the three entry points is called with an address and options, and
\* runs up to its return, its throw or the first await, the limiter's
\* acquire() in the provider
SdkCall(q) ==
    /\ req.pc \in {"idle", "returned", "thrown"}
    /\ Len(served) < MaxClientCalls
    /\ RequestStep
    /\ wire' = ZeroWire
    /\ LET network == entryNetwork(q.entry, q.address)
           r == [IdleRequest EXCEPT !.entry = q.entry, !.address = q.address, !.options = q.options,
                                    !.network = network, !.start = now,
                                    !.before = evictExpired(mc.cache, now)]
           look == IF q.entry = GET_TRANSACTIONS /\ network # NoNetwork
                   THEN cacheLookup(sdk, mc, network, q.address, q.options, now)
                   ELSE <<mc, Undefined>>
           popts == providerOptions(network, q.options)
       IN  IF network = NoNetwork
           THEN Fails(r, mc, SDKError("ValidationError", "", Undefined, Undefined, 0))
           ELSE IF look[2] # Undefined
           THEN /\ req' = [r EXCEPT !.pc = "returned", !.hit = look[2]]
                /\ mc' = look[1]
                /\ served' = Append(served, Served("hit", r))
           ELSE IF ~hasAdapter(sdk, network)
           THEN Fails(r, look[1], SDKError("ConfigurationError", "", Undefined, Undefined, 0))
           ELSE IF ~validateAddress(network, q.address)
           THEN Fails(r, look[1], SDKError("ValidationError", "", Undefined, Undefined, 0))
           ELSE IF network = ETHEREUM_MAINNET /\ ~sdk.etherscanApiKey
           THEN Fails(r, look[1], SDKError("ConfigurationError", "", Undefined, Undefined, 0))
           ELSE /\ req' = [r EXCEPT !.pc = "acquire",
                                    !.limit = OrElse(popts.limit, DefaultLimit),
                                    !.page = OrElse(popts.page, 1)]
                /\ mc' = look[1]
                /\ served' = served

\* the limiter admits the page request: retryWithBackoff is entered
AcquireResolves ==
    /\ req.pc = "acquire"
    /\ RequestStep
    /\ req' = [req EXCEPT !.pc = "http"]
    /\ wire' = [wire EXCEPT !.admissions = @ + 1]
    /\ UNCHANGED <<mc, served>>

\* the limiter rejects the waiters of an activation that reached its
\* iteration cap: acquire() is awaited outside the provider's try block
AcquireRejects ==
    /\ req.pc = "acquire"
    /\ RequestStep
    /\ Fails(req, mc, PlainError(0))
    /\ UNCHANGED wire

\* every attempt of the page request fails with `error`
HttpFails(error) ==
    /\ req.pc = "http"
    /\ RequestStep
    /\ wire' = [wire EXCEPT !.requests = @ + attemptsOf(error, ProviderRetryConfig),
                            !.retries = @ + attemptsOf(error, ProviderRetryConfig) - 1]
    /\ Fails([req EXCEPT !.status = httpStatus(error)], mc, throughCatch(Throw(error), req.network).error)

\* the indexer answers the page request with a 200 response
EtherscanResponds(data) ==
    /\ req.pc = "http"
    /\ req.network = ETHEREUM_MAINNET
    /\ RequestStep
    /\ wire' = [wire EXCEPT !.requests = @ + 1]
    /\ LET completion == throughCatch(ethParse(data, req.limit, req.page), req.network)
           r == [req EXCEPT !.records = IF data.isArray THEN Len(data.result)
                                        ELSE IF data.text = NO_TRANSACTIONS THEN 0 ELSE Undefined]
       IN  IF completion.ok THEN Returns(r, completion.value) ELSE Fails(r, mc, completion.error)

\* the node answers getSignaturesForAddress with a 200 response: an empty
\* page is returned at once, otherwise one getTransaction call per position
\* record is started, each up to its acquire()
SignaturesRespond(data) ==
    /\ req.pc = "http"
    /\ req.network = SOLANA_MAINNET
    /\ RequestStep
    /\ wire' = [wire EXCEPT !.requests = @ + 1]
    /\ LET completion == throughCatch(rpcParse(data), req.network)
       IN  IF ~completion.ok THEN Fails([req EXCEPT !.status = data.error], mc, completion.error)
           ELSE IF Len(completion.value) = 0
           THEN Returns([req EXCEPT !.records = 0], NoResponse)
           ELSE /\ req' = [req EXCEPT !.pc = "details", !.signatures = completion.value,
                                      !.records = Len(completion.value),
                                      !.calls = [i \in 1..Len(completion.value) |-> "acquire"],
                                      !.details = [i \in 1..Len(completion.value) |-> NullDetails]]
                /\ UNCHANGED <<mc, served>>

\* the limiter admits the i-th detail call
DetailAcquireResolves(i) ==
    /\ req.pc = "details"
    /\ req.calls[i] = "acquire"
    /\ RequestStep
    /\ req' = [req EXCEPT !.calls[i] = "http"]
    /\ wire' = [wire EXCEPT !.admissions = @ + 1]
    /\ UNCHANGED <<mc, served>>

\* the i-th detail call is rejected with `error`, the backend having supplied
\* `status`: Promise.all rejects with it (the detail calls still running are
\* no longer followed)
DetailRejected(i, error, status) ==
    Fails([req EXCEPT !.calls[i] = "failed", !.status = status], mc, error)

\* the limiter rejects the i-th detail call
DetailAcquireRejects(i) ==
    /\ req.pc = "details"
    /\ req.calls[i] = "acquire"
    /\ RequestStep
    /\ DetailRejected(i, PlainError(0), Undefined)
    /\ UNCHANGED wire

\* every attempt of the i-th detail call fails with `error`
DetailHttpFails(i, error) ==
    /\ req.pc = "details"
    /\ req.calls[i] = "http"
    /\ RequestStep
    /\ wire' = [wire EXCEPT !.requests = @ + attemptsOf(error, ProviderRetryConfig),
                            !.retries = @ + attemptsOf(error, ProviderRetryConfig) - 1]
    /\ DetailRejected(i, throughCatch(Throw(error), req.network).error, httpStatus(error))

\* mutant of collect: values are kept in the order of their arrival
collectByArrival(results, order, i, details) == [results EXCEPT ![Len(order) + 1] = details]

\* Promise.all stores the value of its i-th promise at index i
collect(results, order, i, details) == [results EXCEPT ![i] = details]

\* the node answers the i-th getTransaction with a 200 response; when it was
\* the last one pending, Promise.all is fulfilled and the page is built
DetailResponds(i, data) ==
    /\ req.pc = "details"
    /\ req.calls[i] = "http"
    /\ RequestStep
    /\ wire' = [wire EXCEPT !.requests = @ + 1]
    /\ LET completion == throughCatch(rpcParse(data), req.network)
           r == [req EXCEPT !.calls[i] = "done", !.order = Append(@, i),
                            !.details = collect(req.details, req.order, i, completion.value)]
       IN  IF ~completion.ok THEN DetailRejected(i, completion.error, data.error)
           ELSE IF \E j \in 1..Len(r.calls) : r.calls[j] # "done"
           THEN /\ req' = r
                /\ UNCHANGED <<mc, served>>
           ELSE Returns(r, solPage(r.signatures, r.details, r.limit, now))

\* no SDK call is traced
RequestIdle ==
    /\ req = IdleRequest
    /\ wire = ZeroWire
    /\ served = <<>>

\* the calls explored of one adapter and provider: no options, a limit, a
\* limit of 0, and time ranges whose bounds are timestamps of the page
ProviderOptions ==
    { NoOptions,
      Options(2, Undefined, <<>>, Undefined, Undefined),
      Options(2, Undefined, <<>>, 198000, Undefined),
      Options(1, 2, <<>>, Undefined, 198000),
      Options(0, Undefined, <<"s", "9">>, 0, 199000) }

ProviderQueries ==
    {Query(GET_ETHEREUM_TRANSACTIONS, EthUpper, o) : o \in ProviderOptions}
    \cup {Query(GET_SOLANA_TRANSACTIONS, SolKey, o) : o \in ProviderOptions}

\* the calls explored of the SDK: every entry point with an address of its
\* network, of the other network and of neither
SdkQueries ==
    { Query(GET_TRANSACTIONS, EthUpper, NoOptions),
      Query(GET_TRANSACTIONS, SolKey, NoOptions),
      Query(GET_TRANSACTIONS, SolKeyLower, NoOptions),
      Query(GET_TRANSACTIONS, BadAddress, NoOptions),
      Query(GET_ETHEREUM_TRANSACTIONS, EthLower, NoOptions),
      Query(GET_ETHEREUM_TRANSACTIONS, BadAddress, NoOptions),
      Query(GET_SOLANA_TRANSACTIONS, EthUpper, NoOptions),
      Query(GET_SOLANA_TRANSACTIONS, BadAddress, NoOptions) }

\* the SDK configurations explored with them: both networks; Ethereum only,
\* with a short TTL; Ethereum by rpcUrl only; Solana only
FullConfig ==
    [cache |-> [enabled |-> TRUE, ttl |-> Undefined, maxSize |-> Undefined], ethereum |-> TRUE,
     etherscanApiKey |-> TRUE, solana |-> TRUE]
RequestConfigs ==
    { FullConfig,
      [FullConfig EXCEPT !.cache.ttl = 250, !.solana = FALSE],
      [FullConfig EXCEPT !.etherscanApiKey = FALSE, !.solana = FALSE],
      [FullConfig EXCEPT !.ethereum = FALSE, !.etherscanApiKey = FALSE] }

(***************************************************************************)
(* RequestQueue (utils/request-queue.ts)                                   *)
(***************************************************************************)
\* an item of the queue: the enqueue call it belongs to, and its priority
QueueItem(id, priority) == [id |-> id, priority |-> priority]

\* what is known of an enqueue call: how often its task was started, whether
\* the task is running, and the settlements of its promise, in order
NewJob == [starts |-> 0, running |-> FALSE, settled |-> <<>>]

\* new RequestQueue(config)
NewRequestQueue(config) ==
    [ maxSize     |-> OrElse(config.maxSize, Infinity),
      concurrency |-> OrElse(config.concurrency, 1),
      priority    |-> config.priority,
      queue       |-> <<>>,
      running     |-> 0 ]

\* `this.queue.length >= this.maxSize`
queueIsFull(q) == q.maxSize # Infinity /\ Len(q.queue) >= q.maxSize

\* the queue after enqueue has placed `item`: before the first item of lower
\* priority when the queue orders by priority and a priority was given, at
\* the end otherwise
insertItem(q, item) ==
    LET lower == {i \in 1..Len(q.queue) : OrElse(q.queue[i].priority, 0) < item.priority}
    IN  IF q.priority /\ item.priority # Undefined /\ lower # {}
        THEN LET index == CHOOSE i \in lower : \A j \in lower : i <= j
             IN  SubSeq(q.queue, 1, index - 1) \o <<item>> \o SubSeq(q.queue, index, Len(q.queue))
        ELSE Append(q.queue, item)

\* mutant of process: the number of running tasks is not looked at
processUnbounded(q, js) ==
    IF Len(q.queue) = 0 THEN <<q, js>>
    ELSE <<[q EXCEPT !.queue = Tail(@), !.running = @ + 1],
           [js EXCEPT ![Head(q.queue).id].starts = @ + 1, ![Head(q.queue).id].running = TRUE]>>

\* process() up to its await: when a slot is free the first item is taken off
\* the queue and its task started; <<the queue object, the jobs>> it leaves
process(q, js) ==
    IF q.running >= q.concurrency \/ Len(q.queue) = 0 THEN <<q, js>>
    ELSE <<[q EXCEPT !.queue = Tail(@), !.running = @ + 1],
           [js EXCEPT ![Head(q.queue).id].starts = @ + 1, ![Head(q.queue).id].running = TRUE]>>

\* enqueue(task, priority): rejected when the queue is full, otherwise queued
\* and process() called
Enqueue(priority) ==
    /\ Len(jobs) < MaxEnqueues
    /\ LET id == Len(jobs) + 1
       IN  IF queueIsFull(rq)
           THEN /\ jobs' = Append(jobs, [NewJob EXCEPT !.settled = <<"Queue is full">>])
                /\ rq' = rq
           ELSE \E r \in {process([rq EXCEPT !.queue = insertItem(rq, QueueItem(id, priority))],
                                  Append(jobs, NewJob))} :
                    rq' = r[1] /\ jobs' = r[2]
    /\ UNCHANGED nonQueueVars

\* the task of a running item has settled: the item's promise is settled with
\* the task's result or error, the slot is freed and process() called
TaskSettles(id, outcome) ==
    /\ jobs[id].running
    /\ \E r \in {process([rq EXCEPT !.running = @ - 1],
                         [jobs EXCEPT ![id].running = FALSE, ![id].settled = Append(@, outcome)])} :
           rq' = r[1] /\ jobs' = r[2]
    /\ UNCHANGED nonQueueVars

\* clear(): every queued item is rejected and the queue emptied
Clear ==
    /\ jobs' = [k \in 1..Len(jobs) |->
                   IF \E i \in 1..Len(rq.queue) : rq.queue[i].id = k
                   THEN [jobs[k] EXCEPT !.settled = Append(@, "Queue cleared")]
                   ELSE jobs[k]]
    /\ rq' = [rq EXCEPT !.queue = <<>>]
    /\ UNCHANGED nonQueueVars

\* no RequestQueue has been constructed
QueueIdle ==
    /\ rq = NewRequestQueue([maxSize |-> Undefined, concurrency |-> Undefined, priority |-> FALSE])
    /\ jobs = <<>>

\* a BlockchainSDK constructed at time 0 with one of `configs`
RequestInit(configs) ==
    /\ LimiterInit({Infinity}, {Infinity}, {FALSE})
    /\ RetryIdle
    /\ \E config \in configs :
          /\ sdk = NewSDK(config)
          /\ mc = NewSDKCache(config)
    /\ ops = 0
    /\ obs = NoObservation
    /\ inflight = <<>>
    /\ callLog = <<>>
    /\ fetches = 0
    /\ lastMut = NoMutation
    /\ RequestIdle
    /\ QueueIdle

\* what the environment of a traced call does, with the backends returning
\* pages of the given lengths
BackendNext(ethLengths, solLengths) ==
    \/ AcquireResolves
    \/ AcquireRejects
    \/ \E error \in HttpFailures : HttpFails(error)
    \/ \E data \in EtherscanEnvelopes(ethLengths) : EtherscanResponds(data)
    \/ \E data \in SignatureEnvelopes(solLengths) : SignaturesRespond(data)
    \/ \E i \in 1..Len(req.calls) : DetailAcquireResolves(i)
    \/ \E i \in 1..Len(req.calls) : DetailAcquireRejects(i)
    \/ \E i \in 1..Len(req.calls) : \E error \in HttpFailures : DetailHttpFails(i, error)
    \/ \E i \in 1..Len(req.calls) : \E data \in DetailEnvelopes(i) : DetailResponds(i, data)
    \/ \E d \in CacheSteps : Tick(d)

\* one call of an adapter and its provider
ProviderInit == RequestInit({FullConfig})

ProviderNext ==
    \/ \E q \in ProviderQueries : req.pc = "idle" /\ SdkCall(q)
    \/ BackendNext((0..MaxPage) \cup {DefaultLimit}, 0..MaxPage)

\* calls of the SDK, one after the other
SdkInit == RequestInit(RequestConfigs)

SdkNext ==
    \/ \E q \in SdkQueries : SdkCall(q)
    \/ BackendNext(0..1, 0..1)

\* a BlockchainSDK constructed at time 0
ClientInit ==
    /\ LimiterInit({Infinity}, {Infinity}, {FALSE})
    /\ RetryIdle
    /\ RequestIdle
    /\ QueueIdle
    /\ \E config \in SDKConfigs :
          /\ sdk = NewSDK(config)
          /\ mc = NewSDKCache(config)
    /\ ops = 0
    /\ obs = NoObservation
    /\ inflight = <<>>
    /\ callLog = <<>>
    /\ fetches = 0
    /\ lastMut = NoMutation

ClientNext ==
    \/ \E q \in ClientQueries : GetTransactions(q)
    \/ \E i \in 1..Len(inflight) : FetchSucceeds(i)
    \/ \E i \in 1..Len(inflight) : FetchFails(i)
    \/ \E a \in InvalidateArgs : InvalidateCache(a)
    \/ ClearCache
    \/ \E d \in CacheSteps : Tick(d)

\* retryWithBackoff(fn, config) has been called and is about to invoke fn
RetryInit ==
    /\ LimiterInit({Infinity}, {Infinity}, {FALSE})
    /\ CacheIdle
    /\ ClientIdle
    /\ RequestIdle
    /\ QueueIdle
    /\ retryConfig \in RetryConfigs
    /\ rt = [pc |-> "call", attempt |-> 0, lastError |-> NoError, thrown |-> NoError,
             invocations |-> 0, errors |-> <<>>, sleeps |-> <<>>, surfaced |-> NoError]

\* a MemoryCache constructed at time 0, directly or by a TransactionCache
CacheInit ==
    /\ LimiterInit({Infinity}, {Infinity}, {FALSE})
    /\ RetryIdle
    /\ ClientIdle
    /\ RequestIdle
    /\ QueueIdle
    /\ mc \in {NewMemoryCache(c) : c \in CacheConfigs} \cup {NewTransactionCache(DefaultCacheConfig)}
    /\ ops = 0
    /\ obs = NoObservation

CacheNext ==
    \/ \E q \in CacheQueries : \E ttl \in TtlChoices : TxSet(q, ttl)
    \/ \E q \in CacheQueries : TxGet(q)
    \/ \E q \in CacheQueries : TxInvalidate(q)
    \/ \E key \in CacheKeys : MemHas(key)
    \/ \E key \in CacheKeys : MemDelete(key)
    \/ MemClear
    \/ MemSize
    \/ \E d \in CacheSteps : Tick(d)

Init ==
    /\ LimiterInit(RpsChoices, RpmChoices, BOOLEAN)
    /\ RetryIdle
    /\ CacheIdle
    /\ ClientIdle
    /\ RequestIdle
    /\ QueueIdle

Next ==
    \/ Acquire
    \/ TryAcquire
    \/ Reset
    \/ \E i \in 1..Len(loops) : TimerFire(i)
    \/ \E d \in Steps : Tick(d)

vars == <<rl, loops, now, ticks, calls, resets, settled, admitted, tryLog, calledAt, capHits, retryConfig, rt,
          mc, ops, obs, sdk, inflight, callLog, fetches, lastMut, req, wire, served, rq, jobs>>

Spec == Init /\ [][Next]_vars

\* the limiter without reset(), with time passing exactly until each timer is
\* due; the event loop fires due timers and the clock never stops
NextLive ==
    \/ Acquire
    \/ TryAcquire
    \/ \E i \in 1..Len(loops) : TimerFire(i)
    \/ AdvanceToTimer

LiveSpec ==
    /\ Init
    /\ [][NextLive]_vars
    /\ WF_vars(\E i \in 1..Len(loops) : TimerFire(i))
    /\ WF_vars(AdvanceToTimer)

RetrySpec == RetryInit /\ [][RetryNext]_vars

CacheSpec == CacheInit /\ [][CacheNext]_vars

ClientSpec == ClientInit /\ [][ClientNext]_vars

ProviderSpec == ProviderInit /\ [][ProviderNext]_vars

SdkSpec == SdkInit /\ [][SdkNext]_vars

\* the configurations a RequestQueue is constructed with, and the priorities
\* tasks are enqueued with
QueueConfigs ==
    [maxSize : {Undefined, 1}, concurrency : {Undefined, 2}, priority : BOOLEAN]
Priorities == {Undefined, 1, 2}

\* a RequestQueue as constructed
QueueInit ==
    /\ LimiterInit({Infinity}, {Infinity}, {FALSE})
    /\ RetryIdle
    /\ CacheIdle
    /\ ClientIdle
    /\ RequestIdle
    /\ \E config \in QueueConfigs : rq = NewRequestQueue(config)
    /\ jobs = <<>>

QueueNext ==
    \/ \E priority \in Priorities : Enqueue(priority)
    \/ \E id \in 1..Len(jobs) : TaskSettles(id, "result")
    \/ \E id \in 1..Len(jobs) : TaskSettles(id, "error")
    \/ Clear

\* every task that was started settles
QueueSpec ==
    /\ QueueInit
    /\ [][QueueNext]_vars
    /\ WF_vars(\E id \in 1..Len(jobs) : TaskSettles(id, "result") \/ TaskSettles(id, "error"))


(***************************************************************************)
(* Claims about the RateLimiter                                            *)
(***************************************************************************)
Range(q) == {q[i] : i \in 1..Len(q)}
Tickets(q) == {q[i].ticket : i \in 1..Len(q)}
Resolved == {settled[i].ticket : i \in {j \in 1..Len(settled) : settled[j].outcome = "resolved"}}
Rejected == {settled[i].ticket : i \in {j \in 1..Len(settled) : settled[j].outcome = "rejected"}}

\* number of admissions granted in the window (lo, hi]
AdmittedIn(lo, hi) == Cardinality({i \in 1..Len(admitted) : lo < admitted[i] /\ admitted[i] <= hi})

\* C1: with finite capacities N and M and only acquire()/tryAcquire() calls
\* and clock advances, no rolling 1-second window holds more than N
\* admissions and no rolling 60-second window more than M.
C1_RollingWindowLimit ==
    (rl.enabled /\ resets = 0 /\ IsFinite(rl.requestsPerSecond) /\ IsFinite(rl.requestsPerMinute)) =>
        \A i \in 1..Len(admitted) :
            /\ AdmittedIn(admitted[i] - SecondMs, admitted[i]) <= rl.requestsPerSecond
            /\ AdmittedIn(admitted[i] - MinuteMs, admitted[i]) <= rl.requestsPerMinute

\* C2: acquire promises settle in the order of the calls, and no caller is
\* admitted while an earlier caller is still in the wait queue.
C2_FifoOrder ==
    /\ \A i, j \in 1..Len(settled) : i < j => settled[i].ticket < settled[j].ticket
    /\ \A t \in Resolved : \A q \in Range(rl.queue) : t < q

\* C2 witness: a caller that had to wait was admitted while a caller that
\* arrived after it, and before that admission, is still queued.
C2_Witness ==
    /\ rl.enabled
    /\ IsFinite(rl.requestsPerSecond) /\ IsFinite(rl.requestsPerMinute)
    /\ \E i \in 1..Len(settled) : \E q \in Range(rl.queue) :
          /\ settled[i].outcome = "resolved"
          /\ settled[i].time > calledAt[settled[i].ticket]
          /\ settled[i].ticket < q
          /\ calledAt[q] < settled[i].time

\* a token count within [0, cap]
TokensInRange(x, cap) ==
    /\ x # NaN
    /\ IF cap = Infinity THEN x = Infinity \/ x >= 0
       ELSE IsFinite(x) /\ x <= Cap(cap)

\* C3: the two token counts of an enabled limiter stay within
\* [0, requestsPerSecond] and [0, requestsPerMinute].
C3_TokensInRange ==
    rl.enabled =>
        /\ TokensInRange(rl.secondTokens, rl.requestsPerSecond)
        /\ TokensInRange(rl.minuteTokens, rl.requestsPerMinute)

\* the time one token takes to refill in the short window
RefillInterval == SecondMs \div rl.requestsPerSecond

\* C4: on a fresh limiter with finite short capacity N not above the long capacity,
\* used through tryAcquire() only, the first N immediate calls return true,
\* every further call returns false until a refill interval has elapsed, and
\* nothing is ever queued or left waiting.
C4_TryAcquireBurst ==
    (/\ rl.enabled
     /\ resets = 0
     /\ Len(tryLog) = calls
     /\ IsFinite(rl.requestsPerSecond) /\ IsFinite(rl.requestsPerMinute)
     /\ rl.requestsPerSecond <= rl.requestsPerMinute) =>
        /\ rl.queue = <<>> /\ loops = <<>> /\ ~rl.processing
        /\ \A i \in 1..Len(tryLog) :
              /\ (i <= rl.requestsPerSecond /\ tryLog[i].time = 0) => tryLog[i].result
              /\ (/\ i > rl.requestsPerSecond
                  /\ tryLog[rl.requestsPerSecond].time = 0
                  /\ tryLog[i].time < RefillInterval) => ~tryLog[i].result

\* C5: every acquire() call eventually settles (resolved or rejected), given
\* that the clock advances and due timers fire.
C5_AcquireSettles ==
    \A k \in 1..(MaxCalls + 1) :
        (k \in Range(rl.queue)) ~> (k \in Tickets(settled))

\* C5 witness: a caller that waited in the queue has been settled.
C5_Witness ==
    /\ rl.enabled
    /\ \E i \in 1..Len(settled) : settled[i].time > calledAt[settled[i].ticket]

\* the acquire() caller a step adds to the queue, if any
NewCaller == IF calls' > calls /\ tryLog' = tryLog THEN {calls'} ELSE {}

\* C6: when an activation ends at the iteration cap with waiters queued, every
\* remaining waiter is rejected and none of them admitted, the queue is left
\* empty and the processing flag cleared.
C6_CapRejectsAll ==
    [][capHits' > capHits =>
          /\ rl'.queue = <<>>
          /\ rl'.processing = FALSE
          /\ Tickets(settled') = Tickets(settled) \cup Range(rl.queue) \cup NewCaller
          /\ settled'[Len(settled')].outcome = "rejected"
          /\ Resolved' \cap Rejected' = {}
          /\ Rejected' # Rejected]_vars

\* C6 witness: an activation ended at the cap and rejected a waiter; the
\* limiter is idle, ready for a fresh activation.
C6_Witness ==
    /\ IsFinite(rl.requestsPerSecond) /\ IsFinite(rl.requestsPerMinute)
    /\ capHits > 0
    /\ Rejected # {}
    /\ rl.queue = <<>>
    /\ ~rl.processing

(***************************************************************************)
(* Claims about retryWithBackoff                                           *)
(***************************************************************************)
Transient(e) == e.kind \in {"NetworkError", "RateLimitError"}

\* a failure that is not a network error, not a rate-limit error and carries
\* no status code of the configured retryable set
Fatal(e) ==
    /\ ~Transient(e)
    /\ e.statusCode = Undefined \/ e.statusCode \notin retryConfig.retryableStatusCodes

AllTransient == \A i \in 1..Len(rt.errors) : Transient(rt.errors[i])

\* C7: when the first failure is non-retryable the operation has been invoked
\* exactly once and that same error is rethrown, with no delay.
C7_FatalFailsOnce ==
    (Len(rt.errors) >= 1 /\ Fatal(rt.errors[1])) =>
        /\ rt.pc = "thrown"
        /\ rt.invocations = 1
        /\ rt.thrown = rt.errors[1]
        /\ rt.sleeps = <<>>

\* C7 witness: a retry budget was available, and a fatal first failure was rethrown.
C7_Witness ==
    /\ retryConfig.maxRetries > 0
    /\ rt.pc = "thrown"
    /\ Len(rt.errors) = 1
    /\ Fatal(rt.errors[1])

\* C8: when every attempt fails with a network or rate-limit error, the call
\* ends only after exactly maxRetries+1 invocations and maxRetries sleeps, and
\* throws the last attempt's error.
C8_ExhaustsBudget ==
    (rt.pc = "thrown" /\ AllTransient) =>
        /\ rt.invocations = retryConfig.maxRetries + 1
        /\ Len(rt.errors) = rt.invocations
        /\ Len(rt.sleeps) = retryConfig.maxRetries
        /\ rt.thrown = rt.errors[Len(rt.errors)]

\* C8 witness: three retries of transient failures were exhausted under an
\* empty retryable status-code set.
C8_Witness ==
    /\ rt.pc = "thrown"
    /\ AllTransient
    /\ retryConfig.maxRetries = 3
    /\ retryConfig.retryableStatusCodes = {}
    /\ rt.invocations = 4

\* C9: a provider error whose status code is in retryableStatusCodes is
\* retried: while attempts remain, a backoff delay follows it.
C9_ProviderStatusRetried ==
    \A i \in 1..Len(rt.errors) :
        (/\ rt.errors[i].kind = "ProviderError"
         /\ rt.errors[i].statusCode \in retryConfig.retryableStatusCodes
         /\ i <= retryConfig.maxRetries) => Len(rt.sleeps) >= i

\* the delay the policy prescribes after error e failed attempt number k
PrescribedDelay(e, k) ==
    IF e.kind = "RateLimitError" /\ e.retryAfter # Undefined
    THEN e.retryAfter * 1000
    ELSE Min(retryConfig.initialDelay * Pow(retryConfig.backoffMultiplier, k), retryConfig.maxDelay)

\* C10: the delay before retry number k is the carried retry-after duration
\* of a rate-limit error (any carried value, 0 included), and otherwise
\* min(initialDelay * backoffMultiplier^k, maxDelay).
C10_DelayBeforeRetry ==
    \A i \in 1..Len(rt.sleeps) : rt.sleeps[i] = PrescribedDelay(rt.errors[i], i - 1)

(***************************************************************************)
(* Claims about the providers' error handling                              *)
(***************************************************************************)
\* C11: when the retries a provider makes (three, with the providers' status
\* codes) of a network or rate-limit error are exhausted, the error that
\* reaches the caller of the provider's getTransactions is that original
\* error itself: same kind, same retryAfter, same object.
C11_OriginalErrorSurfaces ==
    (/\ rt.surfaced # NoError
     /\ retryConfig.maxRetries = 3
     /\ retryConfig.retryableStatusCodes = ProviderCodes
     /\ Transient(rt.thrown)
     /\ rt.invocations = retryConfig.maxRetries + 1) =>
        rt.surfaced = rt.thrown

(***************************************************************************)
(* Claims about the cache                                                  *)
(***************************************************************************)
\* C12: get(key) and has(key) never report an entry whose expiry time has
\* passed: a value or true is reported only for a key that held an entry with
\* expiresAt >= now when the operation was called, purged or not.
C12_NoExpiredEntryReported ==
    /\ obs.op = "get" => (obs.result # Undefined => obs.had)
    /\ obs.op = "has" => (obs.found => obs.had)

\* C12 witness: get was called for a key whose expired entry was still in the
\* store, and reported absence.
C12_Witness ==
    /\ obs.op = "get"
    /\ obs.stale
    /\ obs.result = Undefined

\* the entries of the store that have not expired at time t
Live(c, t) == {i \in 1..Len(c) : c[i].expiresAt >= t}

\* the unexpired entries of other keys that a step removes from the store
Removed(key) ==
    {i \in Live(mc.cache, now) : mc.cache[i].key # key /\ ~mapHas(mc'.cache, mc.cache[i].key)}

\* the entry is among the unexpired entries created first
IsOldest(c, t, i) == \A j \in Live(c, t) : c[i].createdAt <= c[j].createdAt

\* C13: a set() on a store holding maxSize unexpired entries evicts exactly
\* one entry, one with the smallest creation time (the entry of the key being
\* set, if that is the oldest); a set() on a store with fewer unexpired
\* entries evicts no unexpired entry.
C13_EvictsExactlyOldest ==
    [][(obs'.op = "set" /\ ops' = ops + 1 /\ mc.enabled) =>
          LET key == obs'.key
              held == Cardinality(Live(mc.cache, now))
          IN  /\ held = mc.maxSize =>
                    /\ Cardinality(Removed(key)) <= 1
                    /\ \A i \in Removed(key) : IsOldest(mc.cache, now, i)
                    /\ Removed(key) = {} =>
                          \E i \in Live(mc.cache, now) :
                              mc.cache[i].key = key /\ IsOldest(mc.cache, now, i)
              /\ (mc.maxSize = Infinity \/ held < mc.maxSize) => Removed(key) = {}]_vars

\* C13 witness: a new key was set on a store that held maxSize unexpired
\* entries created at different times.
C13_Witness ==
    /\ obs.op = "set"
    /\ obs.held = mc.maxSize
    /\ ~obs.had
    /\ \E i, j \in 1..Len(mc.cache) : mc.cache[i].createdAt < mc.cache[j].createdAt

\* C14: with the cache enabled, a set followed immediately by a get of the
\* same network, address and options returns the value just stored.
C14_SetThenGet ==
    [][(/\ obs.op = "set" /\ obs'.op = "get"
        /\ ops' = ops + 1
        /\ obs'.time = obs.time
        /\ obs'.q = obs.q
        /\ mc.enabled) => obs'.result = obs.value]_vars

\* C14 witness: the second operation, a set, was made on a store at capacity
\* after time had passed, and the get that followed it returned its value.
C14_Witness ==
    /\ obs.op = "get"
    /\ ops = 3
    /\ obs.result = 2
    /\ obs.time > 0
    /\ mc.maxSize = 1
    /\ obs.len = mc.maxSize

\* C15: set(key, value, ttl) stores an entry that expires at now + ttl for
\* every ttl passed, 0 included, and at now + defaultTtl when ttl is omitted.
C15_ExpiryIsNowPlusTtl ==
    (obs.op = "set" /\ mc.enabled) =>
        mapGet(mc.cache, obs.key).expiresAt =
            obs.time + (IF obs.ttl = Undefined THEN mc.defaultTtl ELSE obs.ttl)

\* C16: the store never holds more than maxSize entries, and size() returns
\* the number of keys for which has(key) is true.
C16_SizeCountsLiveKeys ==
    /\ mc.maxSize # Infinity => Len(mc.cache) <= mc.maxSize
    /\ obs.op = "size" =>
          obs.result = Cardinality({k \in CacheKeys : memHas(mc, k, obs.time)[2]})

\* C16 witness: size() was called on a store that held an expired entry not
\* yet purged besides an unexpired one.
C16_Witness ==
    /\ obs.op = "size"
    /\ obs.len > obs.held
    /\ obs.result >= 1

\* two characters that are the same letter
SameLetter(a, b) == a = b \/ <<a, b>> \in {<<"A", "a">>, <<"a", "A">>, <<"B", "b">>, <<"b", "B">>, <<"W", "w">>, <<"w", "W">>}

\* two queries that differ at most in the letter case of the address
SameQuery(q1, q2) ==
    /\ q1.network = q2.network
    /\ q1.options = q2.options
    /\ Len(q1.address) = Len(q2.address)
    /\ \A i \in 1..Len(q1.address) : SameLetter(q1.address[i], q2.address[i])

\* C17: queries that differ only in the letter case of the address have the
\* same key: a value stored by one is returned to a get by the other.
C17_KeyIgnoresCase ==
    [][(/\ obs.op = "set" /\ obs'.op = "get"
        /\ ops' = ops + 1
        /\ obs'.time = obs.time
        /\ SameQuery(obs.q, obs'.q)
        /\ mc.enabled) => (obs'.key = obs.key /\ obs'.result = obs.value)]_vars

\* C17 witness: a get with the lower-case spelling returned the value that
\* was stored with the mixed-case spelling.
C17_Witness ==
    /\ obs.op = "get"
    /\ obs.q.address = EthLower
    /\ obs.writers[obs.key] = EthUpper
    /\ obs.result # Undefined

\* C18: after invalidate(network, address) the store is empty: size() is 0
\* and no query is answered, whatever was cached before.
C18_InvalidateEmptiesStore ==
    obs.op = "invalidate" =>
        /\ mc.cache = <<>>
        /\ memSize(mc, now)[2] = 0
        /\ \A q \in CacheQueries : txGet(mc, q.network, q.address, q.options, now)[2] = Undefined

\* C18 witness: invalidate was called for an address that had an entry while
\* the store held an entry of another key as well.
C18_Witness ==
    /\ obs.op = "invalidate"
    /\ obs.had
    /\ obs.held = 2

(***************************************************************************)
(* Claims about the SDK's use of the cache                                 *)
(***************************************************************************)
\* two calls made with identical arguments
SameArguments(c1, c2) == c1.address = c2.address /\ c1.options = c2.options

\* call j started while the entry stored by call i had not expired
WithinTtl(i, j) == callLog[j].start <= callLog[i].end + mc.defaultTtl

\* C19: with caching enabled, when a call has fetched and stored its response
\* and the next change-free use of the cache is a call with identical
\* arguments within the TTL, that second call makes no fetch and returns the
\* same response: one fetch for the two calls.
C19_SecondCallFromCache ==
    \A j \in 1..Len(callLog) :
        LET i == callLog[j].mutAtStart.set
        IN  (/\ sdk.cache
             /\ i # 0
             /\ SameArguments(callLog[i], callLog[j])
             /\ WithinTtl(i, j)) =>
                /\ callLog[i].fetched
                /\ ~callLog[j].fetched
                /\ callLog[j].outcome = "hit"
                /\ callLog[j].result = callLog[i].result

\* C19 witness: the second call was made later than the first returned, still
\* within the TTL, and was answered from the cache; one fetch was made.
C19_Witness ==
    /\ sdk.cache
    /\ fetches = 1
    /\ \E j \in 1..Len(callLog) :
          LET i == callLog[j].mutAtStart.set
          IN  /\ i # 0
              /\ SameArguments(callLog[i], callLog[j])
              /\ callLog[j].start > callLog[i].end
              /\ callLog[j].outcome = "hit"

\* C20: with caching enabled, when invalidateCache(network, address) follows
\* a call that fetched and stored its response for that address, a call with
\* identical arguments made next is not answered from the cache: it makes a
\* new fetch, and when the fetch succeeds the cache holds the new response.
C20_InvalidateForcesFetch ==
    \A j \in 1..Len(callLog) :
        LET i == callLog[j].mutAtStart.dropped
        IN  (/\ sdk.cache
             /\ i # 0
             /\ SameArguments(callLog[i], callLog[j])) =>
                /\ callLog[j].outcome # "hit"
                /\ callLog[j].fetched
                /\ callLog[j].outcome = "fetched" =>
                      /\ callLog[j].result # callLog[i].result
                      /\ callLog[j].cachedAfter = callLog[j].result

\* C20 witness: the second call was made within the TTL of the first call's
\* entry, after invalidateCache, and fetched and cached a new response.
C20_Witness ==
    /\ sdk.cache
    /\ fetches = 2
    /\ \E j \in 1..Len(callLog) :
          LET i == callLog[j].mutAtStart.dropped
          IN  /\ i # 0
              /\ SameArguments(callLog[i], callLog[j])
              /\ WithinTtl(i, j)
              /\ callLog[j].outcome = "fetched"
              /\ callLog[j].cachedAfter = j

(***************************************************************************)
(* Claims about the SDK's entry points                                     *)
(***************************************************************************)
Finished == req.pc \in {"returned", "thrown"}

\* the cache holds what it held when the call began (entries that had
\* expired by then are removed by any lookup and are not counted)
CacheUnchanged == evictExpired(mc.cache, req.start) = req.before

RejectedUntouched(kind) ==
    /\ req.pc = "thrown"
    /\ req.error.kind = kind
    /\ wire = ZeroWire
    /\ CacheUnchanged

\* C21 as stated: on each of the three entry points an address of neither
\* format is rejected with a validation error, and an address whose detected
\* network has no configured provider with a configuration error, with no
\* HTTP request, no limiter admission, no retry and the cache unchanged
C21_RejectsRespectively ==
    Finished =>
        LET detected == detectNetwork(req.address)
        IN  /\ detected = NoNetwork => RejectedUntouched("ValidationError")
            /\ (detected # NoNetwork /\ ~hasAdapter(sdk, detected)) => RejectedUntouched("ConfigurationError")

\* whether the address has the format of the network
HasFormat(network, address) ==
    IF network = ETHEREUM_MAINNET THEN isValidEthereumAddress(address) ELSE isValidSolanaPublicKey(address)

\* C21 (amended): getTransactions rejects an address of neither format with a
\* validation error and an address whose detected network has no configured
\* provider with a configuration error; getEthereumTransactions and
\* getSolanaTransactions reject every address with a configuration error when
\* their own network has no configured provider, and otherwise every address
\* that has not their network's format with a validation error; in each case
\* with no HTTP request, no limiter admission, no retry and the cache unchanged
C21_RejectsBeforeAnyRequest ==
    Finished =>
        LET detected == detectNetwork(req.address)
            own == IF req.entry = GET_ETHEREUM_TRANSACTIONS THEN ETHEREUM_MAINNET ELSE SOLANA_MAINNET
        IN  IF req.entry = GET_TRANSACTIONS
            THEN /\ detected = NoNetwork => RejectedUntouched("ValidationError")
                 /\ (detected # NoNetwork /\ ~hasAdapter(sdk, detected)) => RejectedUntouched("ConfigurationError")
            ELSE /\ ~hasAdapter(sdk, own) => RejectedUntouched("ConfigurationError")
                 /\ (hasAdapter(sdk, own) /\ ~HasFormat(own, req.address)) => RejectedUntouched("ValidationError")

\* a call on a network without provider is rejected while the cache holds the
\* response of an earlier call, and a second rejected call had a malformed address
C21_Witness ==
    /\ req.pc = "thrown"
    /\ req.entry = GET_TRANSACTIONS
    /\ req.error.kind = "ConfigurationError"
    /\ detectNetwork(req.address) = SOLANA_MAINNET
    /\ Len(req.before) > 0
    /\ Len(served) = 2 /\ served[1].outcome = "returned" /\ served[2].outcome = "thrown"

(***************************************************************************)
(* Claims about the providers and the adapters                             *)
(***************************************************************************)
\* the provider of a network has returned a page to its adapter
Fetched(network) == req.pc = "returned" /\ req.hit = Undefined /\ req.network = network

\* the position of a signature in the signature page
PositionOf(signature) == CHOOSE i \in 1..Len(req.signatures) : req.signatures[i].signature = signature

\* C22: whatever the order in which the detail calls of the JSON-RPC provider
\* complete, the transactions returned are in the order of their position
\* records in the signature page, and each is built from the detail record
\* the node holds for its own signature
C22_FanOutKeepsOrder ==
    Fetched(SOLANA_MAINNET) =>
        LET data == req.upstream.data
        IN  /\ \A k \in 1..Len(data) :
                 \E i \in 1..Len(req.signatures) :
                    /\ req.signatures[i].signature = data[k].hash
                    /\ data[k].fee = TransactionDetails(i).fee
            /\ \A k, l \in 1..Len(data) : k < l => PositionOf(data[k].hash) < PositionOf(data[l].hash)

\* the detail call of the second record completed before that of the first,
\* and both records are returned
C22_Witness ==
    /\ Fetched(SOLANA_MAINNET)
    /\ Len(req.order) >= 2
    /\ req.order[1] = 2
    /\ req.order[2] = 1
    /\ Len(req.upstream.data) = Len(req.signatures)

\* the records of the signature page whose detail record is not null
Resolvable == SelectSeq([i \in 1..Len(req.signatures) |-> i], LAMBDA i : ~req.details[i].isNull)

\* C23: in the JSON-RPC provider a position record whose detail fetch does not
\* give a detail record (a null result or a failed detail call) is dropped
\* and the other records of the page are returned: once the signature page
\* is there, getTransactions does not fail because of what the network or the
\* node answers to a detail call
C23_UnresolvedRecordDropped ==
    /\ (req.pc = "thrown" /\ req.network = SOLANA_MAINNET /\ req.error.kind # "Error") => req.signatures = <<>>
    /\ Fetched(SOLANA_MAINNET) =>
          /\ Len(req.upstream.data) = Len(Resolvable)
          /\ \A k \in 1..Len(Resolvable) : req.upstream.data[k].hash = req.signatures[Resolvable[k]].signature

\* the limit a call asks for: 100 when none is given (a limit of 0 counts as
\* not given)
RequestedLimit == IF req.options.limit \in {Undefined, 0} THEN DefaultLimit ELSE req.options.limit

\* C24: for both providers hasMore is true exactly when the backend returned
\* as many records as the requested limit, and a well-formed empty page or
\* "No transactions found" gives an empty page with hasMore false and no error
C24_HasMoreIffFullPage ==
    /\ (req.pc = "returned" /\ req.hit = Undefined) =>
          req.upstream.pagination.hasMore = (req.records = RequestedLimit)
    /\ (Finished /\ req.records = 0) =>
          /\ req.pc = "returned"
          /\ req.upstream.data = <<>>
          /\ ~req.upstream.pagination.hasMore

\* no limit is given and the indexer returns 100 records
C24_Witness ==
    /\ Fetched(ETHEREUM_MAINNET)
    /\ req.options.limit = Undefined
    /\ req.records = DefaultLimit
    /\ req.upstream.pagination.hasMore

\* C25: in the JSON-RPC provider nextCursor is the signature of the last
\* record of the signature page exactly when hasMore is true and is unset
\* otherwise, also when that record is not among the transactions returned
C25_NextCursorIsLastSignature ==
    Fetched(SOLANA_MAINNET) =>
        LET pagination == req.upstream.pagination
        IN  /\ pagination.hasMore => pagination.nextCursor = req.signatures[Len(req.signatures)].signature
            /\ ~pagination.hasMore => pagination.nextCursor = ""

\* the page is full and its last record has no detail record
C25_Witness ==
    /\ Fetched(SOLANA_MAINNET)
    /\ req.upstream.pagination.hasMore
    /\ req.details[Len(req.signatures)].isNull
    /\ Len(req.upstream.data) > 0
    /\ req.upstream.pagination.nextCursor # req.upstream.data[Len(req.upstream.data)].hash

\* whether a timestamp is in the time range of the call's options
InRange(timestamp) ==
    /\ req.options.startTime # Undefined => req.options.startTime <= timestamp
    /\ req.options.endTime # Undefined => timestamp <= req.options.endTime

\* C26: the data an adapter returns are exactly the transactions of its
\* provider's page, in that order, whose timestamp is in the time range
\* (bounds inclusive, each applied only when given)
C26_ExactlyTheRange ==
    (req.pc = "returned" /\ req.hit = Undefined) =>
        req.result.data = SelectSeq(req.upstream.data, LAMBDA tx : InRange(tx.timestamp))

\* a transaction at the start bound is kept and another one is removed
C26_Witness ==
    /\ req.pc = "returned"
    /\ req.hit = Undefined
    /\ \E k \in 1..Len(req.result.data) : req.result.data[k].timestamp = req.options.startTime
    /\ Len(req.result.data) < Len(req.upstream.data)

\* C27: the pagination metadata an adapter returns are those its provider
\* computed for the unfiltered page
C27_PaginationUntouched ==
    (req.pc = "returned" /\ req.hit = Undefined) => req.result.pagination = req.upstream.pagination

\* the filter removed records of a full page
C27_Witness ==
    /\ req.pc = "returned"
    /\ req.hit = Undefined
    /\ Len(req.result.data) < Len(req.upstream.data)
    /\ req.result.pagination.hasMore

\* C28: every ProviderError raised by a provider's getTransactions carries
\* the provider's name, and the status code whenever the backend supplied one
\* (the HTTP status of a response that is not OK, the code of a JSON-RPC error)
C28_ProviderErrorNamesProvider ==
    (req.pc = "thrown" /\ req.error.kind = "ProviderError") =>
        /\ req.error.provider = providerName(req.network)
        /\ req.status # Undefined => req.error.statusCode = req.status

\* the five stable kinds of an SDK error
StableCodes ==
    { ErrorCode[k] : k \in {"ValidationError", "ConfigurationError", "NetworkError",
                            "RateLimitError", "ProviderError"} }

\* C29: every error that surfaces from getTransactions, on any path, is an
\* SDK error with one of the five stable kinds and a context payload
C29_EveryErrorIsSdkError ==
    (req.pc = "thrown" /\ req.entry = GET_TRANSACTIONS) =>
        (req.error.code \in StableCodes /\ req.error.context)

\* C30: a call that fails leaves the cache as it was when the call began,
\* every entry of the cache holds the response of a call that returned, and
\* every call answered from the cache is answered with such a response
C30_CacheOnlyAfterSuccess ==
    /\ req.pc = "thrown" => CacheUnchanged
    /\ \A i \in 1..Len(mc.cache) :
          /\ mc.cache[i].value \in 1..Len(served)
          /\ served[mc.cache[i].value].outcome = "returned"
    /\ (req.pc = "returned" /\ req.hit # Undefined) =>
          (req.hit \in 1..Len(served) /\ served[req.hit].outcome = "returned")

\* a getTransactions call on an SDK whose cache holds an earlier response
\* has sent its request and failed
C30_Witness ==
    /\ req.pc = "thrown"
    /\ req.entry = GET_TRANSACTIONS
    /\ sdk.cache
    /\ wire.requests > 0
    /\ Len(req.before) > 0
    /\ Len(mc.cache) > 0

(***************************************************************************)
(* Further claims about the RateLimiter                                    *)
(***************************************************************************)
\* the short bucket of a fresh limiter was drained at time 0: its first
\* requestsPerSecond admissions were all granted at time 0
DrainedAtZero ==
    /\ rl.enabled
    /\ resets = 0
    /\ IsFinite(rl.requestsPerSecond) /\ IsFinite(rl.requestsPerMinute)
    /\ Len(admitted) >= rl.requestsPerSecond
    /\ \A i \in 1..rl.requestsPerSecond : admitted[i] = 0

\* C31: refill credits each elapsed interval at most once: after the short
\* bucket of capacity C was drained at time 0, the admissions granted up to
\* time d, d shorter than the window, are at most C * d / window-length more,
\* however many calls triggered a refill in between
C31_RefillCreditsOnce ==
    (DrainedAtZero /\ now < SecondMs) =>
        (Len(admitted) - rl.requestsPerSecond) * SecondMs <= rl.requestsPerSecond * now

\* C32: with positive finite capacities in both windows (and no reset), no
\* queued acquire() is ever rejected, however many callers one activation of
\* the service loop has to serve
C32_NoWaiterRejected ==
    (rl.enabled /\ resets = 0 /\ IsFinite(rl.requestsPerSecond) /\ IsFinite(rl.requestsPerMinute)) =>
        (Rejected = {} /\ capHits = 0)

\* C33: admission is FIFO across acquire() and tryAcquire(): no tryAcquire()
\* call obtains a token while a caller of an earlier acquire() is still
\* waiting in the queue (stated for finite capacities)
C33_TryAcquireRespectsQueue ==
    (rl.enabled /\ IsFinite(rl.requestsPerSecond) /\ IsFinite(rl.requestsPerMinute)) =>
        \A i \in 1..Len(tryLog) :
            tryLog[i].result => \A q \in Range(rl.queue) : tryLog[i].call < q

(***************************************************************************)
(* Further claims about the providers, the cache and the SDK               *)
(***************************************************************************)
\* C34: every HTTP request attempt a provider sends, retries included, is
\* individually admitted by the provider's limiter: the attempts sent never
\* outnumber the admissions granted
C34_EveryAttemptAdmitted == wire.requests <= wire.admissions

\* C35: two Solana public keys that differ only in letter case never share a
\* cache entry: a getTransactions call for a public key that is answered from
\* the cache is answered with the response of a call for that same public key
C35_SolanaKeysKeepCase ==
    (req.pc = "returned" /\ req.hit # Undefined /\ req.network = SOLANA_MAINNET) =>
        served[req.hit].address = req.address

\* the cache key of a logged call
CallKey(c) == generateKey(c.network, c.address, c.options)

\* call j was made with the arguments of call i, and no response was stored
\* or invalidated between the two calls
Overlaps(i, j) ==
    /\ i < j
    /\ SameArguments(callLog[i], callLog[j])
    /\ callLog[i].fetched
    /\ callLog[j].mutAtStart = callLog[i].mutAtStart

\* C36: overlapping getTransactions calls with identical arguments are not
\* coalesced: a call made while an earlier identical call is still fetching
\* misses the cache as well and makes its own fetch; the entry in the cache
\* is the one written by the call that stored last; and every entry is held
\* under the key of the query that produced it
C36_OverlappingCallsBothFetch ==
    /\ \A i, j \in 1..Len(callLog) :
          (Overlaps(i, j) /\ callLog[i].outcome = "pending") =>
              (callLog[j].fetched /\ callLog[j].outcome # "hit")
    /\ \A k \in 1..Len(mc.cache) :
          /\ mc.cache[k].key = CallKey(callLog[mc.cache[k].value])
          /\ (lastMut.set # 0 /\ mc.cache[k].key = CallKey(callLog[lastMut.set])) =>
                mc.cache[k].value = lastMut.set

\* two identical calls overlapped, each made its own fetch, the call made
\* first completed last, and the cache holds its response
C36_Witness ==
    /\ sdk.cache
    /\ fetches = 2
    /\ \E i, j \in 1..Len(callLog) :
          /\ Overlaps(i, j)
          /\ callLog[j].start = callLog[i].start
          /\ callLog[i].outcome = "fetched" /\ callLog[j].outcome = "fetched"
          /\ lastMut.set = i
          /\ \E k \in 1..Len(mc.cache) : mc.cache[k].value = i

\* the acquire() calls made so far
AcquireCalls == (1..calls) \ {tryLog[i].call : i \in 1..Len(tryLog)}

\* C37: reset() strands no caller and duplicates no service loop: every
\* acquire() made on an enabled limiter is settled or still waiting in the
\* queue, where the service loop will settle it, and at most one activation of
\* the service loop exists at any time (stated for finite capacities)
C37_ResetStrandsNoCaller ==
    (rl.enabled /\ IsFinite(rl.requestsPerSecond) /\ IsFinite(rl.requestsPerMinute)) =>
        /\ AcquireCalls \subseteq (Tickets(settled) \cup Range(rl.queue))
        /\ Len(loops) <= 1

\* C38: a set() of a key that is present in a full store (maxSize entries,
\* none expired) replaces only that key's entry: every other key stays in the
\* store and the size stays at maxSize
C38_OverwriteKeepsOthers ==
    [][(/\ obs'.op = "set" /\ ops' = ops + 1
        /\ mc.enabled
        /\ Len(mc.cache) = mc.maxSize
        /\ Cardinality(Live(mc.cache, now)) = mc.maxSize
        /\ \E i \in 1..Len(mc.cache) : mc.cache[i].key = obs'.key) =>
          /\ Len(mc'.cache) = mc.maxSize
          /\ \A i \in 1..Len(mc.cache) : \E j \in 1..Len(mc'.cache) : mc'.cache[j].key = mc.cache[i].key]_vars

\* the cache is never read or written on behalf of a network-specific call
SpecificEntriesUnserved ==
    /\ (Finished /\ req.entry # GET_TRANSACTIONS) => (req.hit = Undefined /\ CacheUnchanged)
    /\ (req.pc = "returned" /\ req.entry # GET_TRANSACTIONS) => wire.requests > 0
    /\ \A i \in 1..Len(served) : served[i].outcome = "hit" => served[i].entry = GET_TRANSACTIONS
    /\ \A k \in 1..Len(mc.cache) : served[mc.cache[k].value].entry = GET_TRANSACTIONS
    /\ (req.pc = "returned" /\ req.hit # Undefined) => served[req.hit].entry = GET_TRANSACTIONS

\* C39: the network-specific entry points never read or write the cache: no
\* step of a getEthereumTransactions or getSolanaTransactions call changes
\* the store, such a call is never answered from the cache and, when it
\* returns, has sent its own request, and every entry of the cache and every
\* answer from the cache is the response of a getTransactions call
C39_SpecificEntriesBypassCache ==
    /\ []SpecificEntriesUnserved
    /\ [][req'.entry # GET_TRANSACTIONS => mc' = mc]_vars

\* getEthereumTransactions was called with the query getTransactions had just
\* been answered for and cached, it sent its own request, and its response
\* is not in the cache
C39_Witness ==
    /\ sdk.cache
    /\ Len(served) = 2
    /\ served[1].entry = GET_TRANSACTIONS /\ served[1].outcome = "returned"
    /\ served[2].entry = GET_ETHEREUM_TRANSACTIONS /\ served[2].outcome = "returned"
    /\ generateKey(ETHEREUM_MAINNET, served[1].address, served[1].options)
           = generateKey(ETHEREUM_MAINNET, served[2].address, served[2].options)
    /\ req.start = 0
    /\ wire.requests > 0
    /\ \E k \in 1..Len(mc.cache) : mc.cache[k].value = 1

(***************************************************************************)
(* Claims about the RequestQueue                                           *)
(***************************************************************************)
Queued(k) == \E i \in 1..Len(rq.queue) : rq.queue[i].id = k

\* what holds of the queue and of every enqueue call at any moment
QueueInvariant ==
    /\ rq.running <= rq.concurrency
    /\ Cardinality({k \in 1..Len(jobs) : jobs[k].running}) = rq.running
    /\ \A k \in 1..Len(jobs) :
          /\ jobs[k].starts <= 1
          /\ Len(jobs[k].settled) <= 1
          /\ jobs[k].settled = <<>> => (Queued(k) \/ jobs[k].running)
          /\ jobs[k].settled # <<>> =>
                /\ ~Queued(k) /\ ~jobs[k].running
                /\ jobs[k].settled[1] \in {"result", "error", "Queue is full", "Queue cleared"}
                /\ jobs[k].settled[1] \in {"result", "error"} <=> jobs[k].starts = 1

\* C40: in every interleaving of enqueue() calls, task completions, task
\* failures and clear(), the tasks running at once never outnumber the
\* configured concurrency, every task is started at most once, and the
\* promise of every enqueue() call settles exactly once, with the task's
\* result or error, 'Queue is full' or 'Queue cleared'
C40_QueueBoundedAndSettlesOnce ==
    /\ []QueueInvariant
    /\ \A k \in 1..MaxEnqueues :
          (Len(jobs) >= k) ~> (Len(jobs) >= k /\ Len(jobs[k].settled) = 1)

\* a queued task was rejected by clear(), a task has completed, and a task
\* enqueued later is running in the only slot
C40_Witness ==
    /\ rq.running = rq.concurrency
    /\ \E k \in 1..Len(jobs) : jobs[k].settled = <<"Queue cleared">>
    /\ \E k \in 1..Len(jobs) : jobs[k].settled = <<"result">>
    /\ \E k \in 1..Len(jobs) : jobs[k].running

====
